---- MODULE Spec2Model ----
(***************************************************************************)
(* A model of the orchestrator's receipt signer/verifier (HALO), of its     *)
(* epistemic claim ledger (ELI): tagger and semantic validator, and of the *)
(* Valet ingest bridge: canonical JSON, upstream HMAC check, Ed25519       *)
(* checkpoint (master receipt and evidence pack) and its offline verifier. *)
(*                                                                         *)
(* Strings are sequences of UTF-16 code units; a code unit is written as a *)
(* one-character TLA+ string, except the two units named uD800 and uFFFD.  *)
(* SHA-256 and HMAC-SHA256 are idealised as collision-free digests of a    *)
(* fixed width: the digest of a message is the message itself, padded.     *)
(* What the code does around them (UTF-8 encoding, hex encoding and hex    *)
(* decoding, string comparison) is modelled as the runtime does it.        *)
(***************************************************************************)
EXTENDS Integers, Sequences, FiniteSets, TLC

\* ------------------------------------------------------------------ bounds
\* Longest response text handed to signResponse, in code units.
MaxResponseLen == 1
\* Most field replacements a harness performs on one receipt.
MaxTamper == 2
\* Most vocabulary words a response text handed to tagResponse is made of.
MaxTokens == 4

VARIABLES
    hpc,        \* position of the receipt run: "idle", "signed", "verified"
    issued,     \* the receipt as signResponse returned it
    receipt,    \* the receipt as it is handed to verifyReceipt
    signKey,    \* the signingKey argument of signResponse
    verifyKey,  \* the signingKey argument of verifyReceipt
    tampers,    \* number of field replacements performed
    verdict,    \* the VerifyResult
    epc,        \* position of the ledger run: "start", "loop", "tagged", "validated"
    response,   \* the response text (the validator's sourceText)
    pending,    \* sentences the tagger's loop has still to visit
    cursor,     \* the tagger's search cursor
    claims,     \* the ledger's claims
    sentence_count, \* the ledger's sentence_count
    validation, \* what validateLedger returned
    cpc,        \* position of the ingest bridge's run
    canonIn,    \* the two JSON values handed to the canonicalizers
    canonOut,   \* what canonicalJson and canonicalize returned for them
    ckInput,    \* the argument of createMasterReceipt
    made,       \* the master receipt and evidence pack as createMasterReceipt returned them
    handed,     \* the master receipt and evidence pack as handed to verifyCheckpointOffline
    ckKeys,     \* the verifyKeyPem and signingKeyPem handed to verifyCheckpointOffline
    ckResult,   \* what verifyCheckpointOffline returned, call by call
    env,        \* process.env of a run of runIngestValet: the three keys
    receiptJson, \* the Valet receipt read from the input directory
    hmacResult, \* what verifyValetHmac returned
    checks,     \* the run's protocol checks
    files,      \* what the run created in the input directory
    exitCode,   \* the exit code of the process, -1 while it runs
    report,     \* the protocol report finalizeRun wrote
    rival,      \* a second receipt, with the signature fields of receiptJson
    rivalResult, \* what verifyValetHmac returned for rival
    normalized, \* what normalizeValetToTranscript returned for receiptJson and rival
    localVerification, \* what the inspector's recomputeVerification returned
    \* the halo-receipts contract loader
    cached,     \* the module-level cache: 0 for null, else the contract object
    installed,  \* what import("halo-receipts") finds
    calls,      \* the calls of loadHaloReceiptsContract, each with its position
    objects,    \* how many contract objects have been built
    clock,      \* how many steps of the event loop have been taken
    resetTimes  \* the steps at which _resetContractCacheForTest ran

haloVars == <<hpc, issued, receipt, signKey, verifyKey, tampers, verdict>>
eliVars == <<epc, response, pending, cursor, claims, sentence_count, validation>>
cliVars == <<cpc, canonIn, canonOut, ckInput, made, handed, ckKeys, ckResult,
            env, receiptJson, hmacResult, checks, files, exitCode, report,
            rival, rivalResult, normalized, localVerification>>
loaderVars == <<cached, installed, calls, objects, clock, resetTimes>>
vars == <<haloVars, eliVars, cliVars, loaderVars>>

\* ------------------------------------------------------- sequences, helpers
RECURSIVE SeqsUpTo(_, _)
SeqsUpTo(S, n) ==
    IF n = 0 THEN {<<>>}
    ELSE LET shorter == SeqsUpTo(S, n - 1)
         IN  shorter \cup {Append(s, c) : s \in {t \in shorter : Len(t) = n - 1}, c \in S}

RECURSIVE Flatten(_)
Flatten(ss) ==
    IF ss = <<>> THEN <<>>
    ELSE IF Len(ss) = 1 THEN ss[1]
    ELSE LET half == Len(ss) \div 2
         IN  Flatten(SubSeq(ss, 1, half)) \o Flatten(SubSeq(ss, half + 1, Len(ss)))

Zeros(n) == [i \in 1..n |-> 0]

\* ------------------------------------------------------------ hex and UTF-8
HexDigits == <<"0", "1", "2", "3", "4", "5", "6", "7",
               "8", "9", "a", "b", "c", "d", "e", "f">>
UpperHexDigits == <<"0", "1", "2", "3", "4", "5", "6", "7",
                    "8", "9", "A", "B", "C", "D", "E", "F">>

\* digest("hex"): two lower-case digits per byte.
ToHex(bytes) ==
    [i \in 1..(2 * Len(bytes)) |->
        LET b == bytes[(i + 1) \div 2]
        IN  IF i % 2 = 1 THEN HexDigits[(b \div 16) + 1] ELSE HexDigits[(b % 16) + 1]]

\* Value of one hex digit, either case; -1 for any other code unit.
HexVal(c) ==
    IF \E i \in 1..16 : HexDigits[i] = c
    THEN (CHOOSE i \in 1..16 : HexDigits[i] = c) - 1
    ELSE IF \E i \in 1..16 : UpperHexDigits[i] = c
    THEN (CHOOSE i \in 1..16 : UpperHexDigits[i] = c) - 1
    ELSE -1

\* Buffer.from(s, "hex"): decodes pairs of digits and stops at the first pair
\* that is not two hex digits; a trailing single digit is dropped.
FromHex(s) ==
    LET pairs == Len(s) \div 2
        good(i) == HexVal(s[2 * i - 1]) >= 0 /\ HexVal(s[2 * i]) >= 0
        n == IF \A i \in 1..pairs : good(i) THEN pairs
             ELSE (CHOOSE i \in 1..pairs : ~good(i) /\ \A j \in 1..(i - 1) : good(j)) - 1
    IN  [i \in 1..n |-> 16 * HexVal(s[2 * i - 1]) + HexVal(s[2 * i])]

\* A lone surrogate and U+FFFD REPLACEMENT CHARACTER, as code units.
uD800 == "uD800"
uFFFD == "uFFFD"

\* Code of an ASCII code unit that occurs in a receipt.
AsciiCode(c) ==
    IF c = "|" THEN 124
    ELSE IF \E i \in 1..10 : HexDigits[i] = c THEN 47 + (CHOOSE i \in 1..10 : HexDigits[i] = c)
    ELSE IF \E i \in 11..16 : HexDigits[i] = c THEN 86 + (CHOOSE i \in 11..16 : HexDigits[i] = c)
    ELSE 54 + (CHOOSE i \in 11..16 : UpperHexDigits[i] = c)

\* update(text, "utf8"): the UTF-8 bytes of a string. A surrogate without its
\* pair is not encodable and is written as U+FFFD (EF BF BD).
Utf8(s) ==
    Flatten([i \in 1..Len(s) |->
        IF s[i] \in {uD800, uFFFD} THEN <<239, 191, 189>> ELSE <<AsciiCode(s[i])>>])

\* ----------------------------------------------------------------- digests
HashBytes == 3 * MaxResponseLen
Sha256Hex(text) ==
    LET bytes == Utf8(text) IN ToHex(bytes \o Zeros(HashBytes - Len(bytes)))

DefaultKey == "test-signing-key-32-bytes-padded!"
Undefined == "undefined"
Keys == {"k1"}
KeyTag(k) == IF k = "k1" THEN 1 ELSE 2

\* signingKey ?? process.env.HALO_SIGNING_KEY ?? default, with the variable unset.
ResolveKey(k) == IF k # Undefined THEN k ELSE DefaultKey

UUIDs == {<<"a">>, <<"b">>}
Timestamps == {<<"1">>, <<"2">>}
\* Values a harness writes into id or timestamp.
FieldValues == UUIDs \cup Timestamps \cup {<<"a", "|", "1">>}

\* Room for the longest payload: two fields, two separators, the hash in hex.
MacBytes ==
    LET longest == CHOOSE n \in 0..8 : /\ \A v \in FieldValues : Len(v) <= n
                                       /\ \E w \in FieldValues : Len(w) = n
    IN  2 * longest + 2 + 2 * HashBytes
HmacHex(key, payload) ==
    LET bytes == Utf8(payload)
    IN  ToHex(<<KeyTag(key)>> \o bytes \o Zeros(MacBytes - Len(bytes)))

\* `${id}|${timestamp}|${responseHash}`
Payload(id, timestamp, responseHash) == id \o <<"|">> \o timestamp \o <<"|">> \o responseHash

Responses == SeqsUpTo({"a", uD800, uFFFD}, MaxResponseLen)

\* ------------------------------------------------------------------ signer
SignedReceipt(text, signingKey, id, timestamp) ==
    LET key == ResolveKey(signingKey)
        responseHash == Sha256Hex(text)
        signature == HmacHex(key, Payload(id, timestamp, responseHash))
    IN  [id |-> id, timestamp |-> timestamp, responseHash |-> responseHash,
         signature |-> signature, response |-> text, schema_version |-> "1.0.0"]

\* ---------------------------------------------------------------- verifier
NoReason == "(none)"
HashMismatch == "response hash mismatch - content may have been tampered"
SigLengthMismatch == "signature length mismatch"
SigMismatch == "signature mismatch - receipt may have been forged"

VerifyPayloadNoTimestamp(r) == r.id \o <<"|">> \o r.responseHash
VerifyPayload(r) == Payload(r.id, r.timestamp, r.responseHash)

VerifyReceipt(r, signingKey) ==
    LET key == ResolveKey(signingKey)
        expectedSig == HmacHex(key, VerifyPayload(r))
        sigBuffer == FromHex(r.signature)
        expectedBuffer == FromHex(expectedSig)
    IN  IF Sha256Hex(r.response) # r.responseHash
        THEN [valid |-> FALSE, reason |-> HashMismatch]
        ELSE IF Len(sigBuffer) # Len(expectedBuffer)
        THEN [valid |-> FALSE, reason |-> SigLengthMismatch]
        ELSE IF sigBuffer # expectedBuffer THEN [valid |-> FALSE, reason |-> SigMismatch]
        ELSE [valid |-> TRUE, reason |-> NoReason]

\* ------------------------------------------------------ receipts in a run
NoReceipt == [id |-> <<>>, timestamp |-> <<>>, responseHash |-> <<>>,
              signature |-> <<>>, response |-> <<>>, schema_version |-> ""]
NoVerdict == [valid |-> FALSE, reason |-> "(not verified)"]

ToUpperHex(s) ==
    [i \in 1..Len(s) |-> IF HexVal(s[i]) >= 0 THEN UpperHexDigits[HexVal(s[i]) + 1] ELSE s[i]]

\* Strings a harness puts in place of an issued signature: in upper case, with
\* a unit appended, with the first digit changed, without the last byte.
HexVariants(s) ==
    {ToUpperHex(s), s \o <<"z">>, [s EXCEPT ![1] = IF s[1] = "0" THEN "1" ELSE "0"],
     SubSeq(s, 1, Len(s) - 2)}

\* A run that is not part of the specification at hand stays at rest.
NoValidation == [threw |-> FALSE, passed |-> FALSE, violations |-> <<>>]

CliIdle ==
    /\ cpc = "off"
    /\ canonIn = <<>>
    /\ canonOut = <<>>
    /\ ckInput = <<>>
    /\ made = <<>>
    /\ handed = <<>>
    /\ ckKeys = <<>>
    /\ ckResult = <<>>
    /\ env = <<>> /\ receiptJson = <<>> /\ hmacResult = <<>> /\ checks = <<>>
    /\ files = {} /\ exitCode = -1 /\ report = <<>>
    /\ rival = <<>> /\ rivalResult = <<>> /\ normalized = <<>> /\ localVerification = <<>>

EliIdle ==
    /\ epc = "off"
    /\ response = <<>>
    /\ pending = <<>>
    /\ cursor = 0
    /\ claims = <<>>
    /\ sentence_count = 0
    /\ validation = NoValidation

LoaderIdle ==
    /\ cached = 0
    /\ installed = "off"
    /\ calls = <<>>
    /\ objects = 0
    /\ clock = 0
    /\ resetTimes = {}

HaloIdle ==
    /\ hpc = "off"
    /\ issued = NoReceipt
    /\ receipt = NoReceipt
    /\ signKey = Undefined
    /\ verifyKey = Undefined
    /\ tampers = 0
    /\ verdict = NoVerdict

InitHalo ==
    /\ CliIdle
    /\ LoaderIdle
    /\ hpc = "idle"
    /\ issued = NoReceipt
    /\ receipt = NoReceipt
    /\ signKey = Undefined
    /\ verifyKey = Undefined
    /\ tampers = 0
    /\ verdict = NoVerdict
    /\ EliIdle

\* signResponse(response, signingKey): randomUUID() and the clock are inputs.
SignResponse ==
    /\ hpc = "idle"
    /\ \E text \in Responses, k \in Keys \cup {Undefined}, id \in UUIDs, ts \in Timestamps :
          /\ issued' = SignedReceipt(text, k, id, ts)
          /\ receipt' = issued'
          /\ signKey' = k
    /\ hpc' = "signed"
    /\ UNCHANGED <<verifyKey, tampers, verdict>>
    /\ UNCHANGED <<eliVars, cliVars, loaderVars>>

\* { ...receipt, field: other }: another response; the issued signature in
\* another form; as responseHash the hash of the response now in the receipt
\* or the issued hash in upper case; another id; another timestamp.
TamperReceipt ==
    /\ hpc = "signed" /\ tampers < MaxTamper
    /\ \/ \E text \in Responses \ {receipt.response} :
             receipt' = [receipt EXCEPT !.response = text]
       \/ \E sig \in HexVariants(issued.signature) \ {receipt.signature} :
             receipt' = [receipt EXCEPT !.signature = sig]
       \/ \E h \in {Sha256Hex(receipt.response), ToUpperHex(issued.responseHash)}
                       \ {receipt.responseHash} :
             receipt' = [receipt EXCEPT !.responseHash = h]
       \/ \E v \in FieldValues \ {receipt.id} : receipt' = [receipt EXCEPT !.id = v]
       \/ \E v \in FieldValues \ {receipt.timestamp} :
             receipt' = [receipt EXCEPT !.timestamp = v]
    /\ tampers' = tampers + 1
    /\ UNCHANGED <<hpc, issued, signKey, verifyKey, verdict>>
    /\ UNCHANGED <<eliVars, cliVars, loaderVars>>

\* verifyReceipt(receipt, signingKey)
VerifyAct ==
    /\ hpc = "signed"
    /\ \E k \in Keys \cup {Undefined} :
          /\ verifyKey' = k
          /\ verdict' = VerifyReceipt(receipt, k)
    /\ hpc' = "verified"
    /\ UNCHANGED <<issued, receipt, signKey, tampers>>
    /\ UNCHANGED <<eliVars, cliVars, loaderVars>>

SpecHalo == InitHalo /\ [][SignResponse \/ TamperReceipt \/ VerifyAct]_vars


\* ======================================================================
\* ELI: the claim tagger and the semantic validator
\* ======================================================================
\* ------------------------------------------------------ character classes
LowerLetters == <<"a", "b", "c", "d", "e", "f", "g", "h", "i", "j", "k", "l", "m", "n", "o", "p", "q", "r", "s", "t", "u", "v", "w", "x", "y", "z">>
UpperLetters == <<"A", "B", "C", "D", "E", "F", "G", "H", "I", "J", "K", "L", "M", "N", "O", "P", "Q", "R", "S", "T", "U", "V", "W", "X", "Y", "Z">>
DecimalDigits == {"0", "1", "2", "3", "4", "5", "6", "7", "8", "9"}
LowerMap ==
    [c \in {UpperLetters[i] : i \in 1..26} |->
        LowerLetters[CHOOSE i \in 1..26 : UpperLetters[i] = c]]
WordChars ==
    {LowerLetters[i] : i \in 1..26} \cup {UpperLetters[i] : i \in 1..26}
        \cup DecimalDigits \cup {"_"}
\* \s of a regular expression and the units String.prototype.trim removes.
WhiteSpace == {" ", "\t", "\n", "\r", "\f"}

\* Canonicalisation of the i flag.
ToLower(c) == IF c \in DOMAIN LowerMap THEN LowerMap[c] ELSE c

\* \b at offset i of s (between s[i] and s[i+1], offsets from 0).
WordBoundary(s, i) ==
    (i > 0 /\ s[i] \in WordChars) # (i < Len(s) /\ s[i + 1] \in WordChars)

\* The literal w stands at offset i of s; ci: under the i flag.
LiteralAt(s, i, w, ci) ==
    /\ i + Len(w) <= Len(s)
    /\ \A j \in 1..Len(w) : IF ci THEN ToLower(s[i + j]) = ToLower(w[j]) ELSE s[i + j] = w[j]

\* /\b(w1|w2|...)/ or /\b(w1|w2|...)\b/ matches somewhere in s; the offsets
\* just after the matched word.
WordEnds(s, words, ci, closed) ==
    {e \in 0..Len(s) :
        \E w \in words :
            /\ e - Len(w) >= 0
            /\ WordBoundary(s, e - Len(w))
            /\ LiteralAt(s, e - Len(w), w, ci)
            /\ (closed => WordBoundary(s, e))}

\* ---------------------------------------------------------------- patterns
InferenceLead ==
    {<<"t", "h", "e", "r", "e", "f", "o", "r", "e">>, <<"t", "h", "u", "s">>,
     <<"h", "e", "n", "c", "e">>, <<"i", "t", " ", "f", "o", "l", "l", "o", "w", "s">>,
     <<"c", "o", "n", "s", "e", "q", "u", "e", "n", "t", "l", "y">>,
     <<"s", "u", "g", "g", "e", "s", "t", " ", "t", "h", "a", "t">>,
     <<"s", "u", "g", "g", "e", "s", "t", "s", " ", "t", "h", "a", "t">>,
     <<"i", "m", "p", "l", "i", "e", " ", "t", "h", "a", "t">>,
     <<"i", "m", "p", "l", "i", "e", "s", " ", "t", "h", "a", "t">>}
InferenceSo == {<<"s", "o">>}
InferenceHedge ==
    {<<"l", "i", "k", "e", "l", "y">>, <<"p", "r", "o", "b", "a", "b", "l", "y">>,
     <<"p", "r", "e", "s", "u", "m", "a", "b", "l", "y">>,
     <<"a", "p", "p", "e", "a", "r", " ", "t", "o">>,
     <<"a", "p", "p", "e", "a", "r", "s", " ", "t", "o">>, <<"s", "e", "e", "m", " ", "t", "o">>,
     <<"s", "e", "e", "m", "s", " ", "t", "o">>, <<"m", "a", "y">>, <<"m", "i", "g", "h", "t">>,
     <<"c", "o", "u", "l", "d">>}
OpinionWords ==
    {<<"i", " ", "t", "h", "i", "n", "k">>, <<"i", " ", "b", "e", "l", "i", "e", "v", "e">>,
     <<"i", "n", " ", "m", "y", " ", "v", "i", "e", "w">>,
     <<"i", "n", " ", "m", "y", " ", "o", "p", "i", "n", "i", "o", "n">>,
     <<"a", "r", "g", "u", "a", "b", "l", "y">>,
     <<"i", "t", " ", "s", "e", "e", "m", "s", " ", "t", "h", "a", "t">>,
     <<"i", "t", " ", "a", "p", "p", "e", "a", "r", "s", " ", "t", "h", "a", "t">>}
FactVerbs ==
    {<<"i", "s">>, <<"a", "r", "e">>, <<"w", "a", "s">>, <<"w", "e", "r", "e">>, <<"h", "a", "s">>,
     <<"h", "a", "v", "e">>, <<"h", "a", "d">>}
HedgeWords ==
    {<<"t", "h", "e", "r", "e", "f", "o", "r", "e">>, <<"t", "h", "u", "s">>,
     <<"h", "e", "n", "c", "e">>, <<"c", "o", "n", "s", "e", "q", "u", "e", "n", "t", "l", "y">>,
     <<"s", "u", "g", "g", "e", "s", "t">>, <<"s", "u", "g", "g", "e", "s", "t", "s">>,
     <<"i", "m", "p", "l", "i", "e">>, <<"i", "m", "p", "l", "i", "e", "s">>,
     <<"l", "i", "k", "e", "l", "y">>, <<"p", "r", "o", "b", "a", "b", "l", "y">>, <<"m", "a", "y">>,
     <<"m", "i", "g", "h", "t">>, <<"c", "o", "u", "l", "d">>, <<"a", "p", "p", "e", "a", "r">>,
     <<"a", "p", "p", "e", "a", "r", "s">>, <<"s", "e", "e", "m">>, <<"s", "e", "e", "m", "s">>}

\* INFERENCE_PATTERNS.some((p) => p.test(sentence))
TestInferenceByHedge(s) ==
    \/ WordEnds(s, HedgeWords, TRUE, TRUE) # {}
    \/ WordEnds(s, InferenceSo, TRUE, TRUE) # {}
TestInference(s) ==
    \/ WordEnds(s, InferenceLead, TRUE, FALSE) # {}
    \/ WordEnds(s, InferenceSo, TRUE, TRUE) # {}
    \/ WordEnds(s, InferenceHedge, TRUE, TRUE) # {}

\* OPINION_PATTERNS.some((p) => p.test(sentence))
TestOpinion(s) == WordEnds(s, OpinionWords, TRUE, TRUE) # {}

\* /\b(is|are|...)\b.*\./ : the verb, then a full stop later on the same line.
TestFactVerb(s) ==
    \E e \in WordEnds(s, FactVerbs, FALSE, TRUE) :
        \E j \in (e + 1)..Len(s) :
            /\ s[j] = "."
            /\ \A k \in (e + 1)..(j - 1) : s[k] \notin {"\n", "\r"}

\* /\b\d{4}\b/
TestYear(s) ==
    \E i \in 0..(Len(s) - 4) :
        /\ WordBoundary(s, i)
        /\ \A j \in 1..4 : s[i + j] \in DecimalDigits
        /\ WordBoundary(s, i + 4)

\* FACT_MARKERS.some((p) => p.test(sentence))
TestFact(s) == TestFactVerb(s) \/ TestYear(s)

\* HEDGE_PATTERN.test(spanText)
TestHedge(s) == WordEnds(s, HedgeWords, TRUE, TRUE) # {}

ClassifyInferenceFirst(sentence) ==
    IF TestInference(sentence) THEN "INFERENCE"
    ELSE IF TestOpinion(sentence) THEN "OPINION"
    ELSE IF TestFact(sentence) THEN "FACT"
    ELSE "ASSERTION"
classifySentence(sentence) ==
    IF TestOpinion(sentence) THEN "OPINION"
    ELSE IF TestInference(sentence) THEN "INFERENCE"
    ELSE IF TestFact(sentence) THEN "FACT"
    ELSE "ASSERTION"

\* ------------------------------------------------------- string operations
\* String.prototype.trim
Trim(s) ==
    LET kept == {i \in 1..Len(s) : s[i] \notin WhiteSpace}
    IN  IF s = <<>> \/ (s[1] \notin WhiteSpace /\ s[Len(s)] \notin WhiteSpace) THEN s
        ELSE IF kept = {} THEN <<>>
        ELSE SubSeq(s, CHOOSE i \in kept : \A j \in kept : i <= j,
                       CHOOSE i \in kept : \A j \in kept : i >= j)

\* response.split(/(?<=[.!?])\s+/): p is the start of the current piece and q
\* the offset at which a separator is tried next.
RECURSIVE SplitFrom(_, _, _)
SplitFrom(s, p, q) ==
    IF q >= Len(s) THEN <<SubSeq(s, p + 1, Len(s))>>
    ELSE IF q > 0 /\ s[q] \in {".", "!", "?"} /\ s[q + 1] \in WhiteSpace
    THEN LET e == CHOOSE k \in (q + 1)..Len(s) :
                      /\ \A j \in (q + 1)..k : s[j] \in WhiteSpace
                      /\ (k < Len(s) => s[k + 1] \notin WhiteSpace)
         IN  <<SubSeq(s, p + 1, q)>> \o SplitFrom(s, e, e)
    ELSE SplitFrom(s, p, q + 1)

\* .split(...).map((s) => s.trim()).filter((s) => s.length > 0)
SplitSentences(s) ==
    LET pieces == SplitFrom(s, 0, 0)
        trimmed == [i \in 1..Len(pieces) |-> Trim(pieces[i])]
    IN  SelectSeq(trimmed, LAMBDA x : x # <<>>)

\* String.prototype.indexOf(sub, from): offset of the first occurrence at or
\* after from, -1 when there is none.
IndexOfAfter(s, sub, from) ==
    LET hits == {i \in (from + 1)..(Len(s) - Len(sub)) : LiteralAt(s, i, sub, FALSE)}
    IN  IF hits = {} THEN -1 ELSE CHOOSE i \in hits : \A j \in hits : i <= j
IndexOfAnywhere(s, sub, from) ==
    LET hits == {i \in 0..(Len(s) - Len(sub)) : LiteralAt(s, i, sub, FALSE)}
    IN  IF hits = {} THEN -1 ELSE CHOOSE i \in hits : \A j \in hits : i <= j
IndexOf(s, sub, from) ==
    LET hits == {i \in from..(Len(s) - Len(sub)) : LiteralAt(s, i, sub, FALSE)}
    IN  IF hits = {} THEN -1 ELSE CHOOSE i \in hits : \A j \in hits : i <= j

\* ------------------------------------------------------- values of a ledger
\* A claim is [id, type, text, span_refs]. id is a JavaScript value [t, s]: a
\* string with its code units, a number with its decimal digits, undefined or
\* null. type is a string, Undefined when absent. span_refs is [t, v]: an array
\* with its entries, an object that is no array, or undefined. An entry is
\* [t, v] in the same way, and a bound of a span is [t, n].
StrV(s) == [t |-> "string", s |-> s]
UndefV == [t |-> "undefined", s |-> <<>>]
Num(k) == [t |-> "number", n |-> k]
NoBound == [t |-> "undefined", n |-> 0]
Arr(v) == [t |-> "array", v |-> v]

\* !claim.id
Falsy(idv) ==
    \/ idv.t \in {"undefined", "null"}
    \/ idv.t = "string" /\ idv.s = <<>>
    \/ idv.t = "number" /\ idv.s = <<"0">>

EpiTypes == {"FACT", "INFERENCE", "ASSERTION", "OPINION"}
FactEvidenceMin == 10

\* String.prototype.slice(start, end) with the arguments as they come.
Slice(s, startv, endv) ==
    LET len == Len(s)
        a == IF startv.t = "number" THEN startv.n ELSE 0
        b == IF endv.t = "number" THEN endv.n ELSE IF endv.t = "undefined" THEN len ELSE 0
        from == IF a < 0 THEN (IF len + a < 0 THEN 0 ELSE len + a) ELSE (IF a > len THEN len ELSE a)
        to == IF b < 0 THEN (IF len + b < 0 THEN 0 ELSE len + b) ELSE (IF b > len THEN len ELSE b)
    IN  SubSeq(s, from + 1, to)

\* const [start, end] = entry
First(entry) == IF Len(entry.v) >= 1 THEN entry.v[1] ELSE NoBound
Second(entry) == IF Len(entry.v) >= 2 THEN entry.v[2] ELSE NoBound

SpanInvalid(entry, sourceText) ==
    LET start == First(entry)
        end == Second(entry)
    IN  \/ start.t # "number" \/ end.t # "number"
        \/ start.n < 0 \/ end.n > Len(sourceText) \/ start.n >= end.n

Violation(claimId, rule, idx) == [claimId |-> claimId, rule |-> rule, claim |-> idx]

\* One pass of the loop body over claim idx. threw: the body raised a TypeError
\* (a method of a non-string id, iteration of a value that is not iterable).
\* The field claim of a violation records which claim produced it.
IdThrows(claim) == ~Falsy(claim.id) /\ claim.id.t # "string"
RefsThrow(claim) ==
    LET refs == claim.span_refs
    IN  /\ refs.t # "undefined"
        /\ \/ refs.t # "array"
           \/ \E k \in 1..Len(refs.v) : refs.v[k].t # "array"

CheckClaim(claim, idx, sourceText) ==
    LET refs == claim.span_refs
        noRefs == refs.t = "undefined" \/ (refs.t = "array" /\ Len(refs.v) = 0)
        hasRefs == refs.t = "array" /\ Len(refs.v) > 0
        rule1 == IF Falsy(claim.id) \/ Trim(claim.id.s) = <<>>
                 THEN <<Violation(IF claim.id.t \in {"undefined", "null"}
                                  THEN StrV(<<"(", "m", "i", "s", "s", "i", "n", "g", ")">>)
                                  ELSE claim.id, "MISSING_ID", idx)>>
                 ELSE <<>>
        rule2 == IF claim.type \notin EpiTypes
                 THEN <<Violation(claim.id, "INVALID_TYPE", idx)>> ELSE <<>>
        rule3 == IF noRefs THEN <<Violation(claim.id, "NO_SPAN_REF", idx)>>
                 ELSE SelectSeq([k \in 1..Len(refs.v) |->
                                    IF SpanInvalid(refs.v[k], sourceText)
                                    THEN Violation(claim.id, "INVALID_SPAN", idx)
                                    ELSE Violation(claim.id, "", idx)],
                                LAMBDA v : v.rule # "")
        rule4 == IF claim.type = "FACT" /\ hasRefs
                    /\ Len(Trim(Slice(sourceText, First(refs.v[1]), Second(refs.v[1]))))
                          < FactEvidenceMin
                 THEN <<Violation(claim.id, "FACT_WITHOUT_EVIDENCE", idx)>> ELSE <<>>
        rule5 == IF claim.type = "INFERENCE" /\ hasRefs
                    /\ ~TestHedge(Slice(sourceText, First(refs.v[1]), Second(refs.v[1])))
                 THEN <<Violation(claim.id, "INFERENCE_LAUNDERING", idx)>> ELSE <<>>
    IN  IF IdThrows(claim) \/ RefsThrow(claim)
        THEN [threw |-> TRUE, violations |-> <<>>]
        ELSE [threw |-> FALSE, violations |-> rule1 \o rule2 \o rule3 \o rule4 \o rule5]

\* validateLedger(ledger, sourceText): the result object, or threw when the
\* call ended in an exception and returned nothing.
validateLedger(ledgerClaims, sourceText) ==
    LET each == [i \in 1..Len(ledgerClaims) |-> CheckClaim(ledgerClaims[i], i, sourceText)]
        violations == Flatten([i \in 1..Len(each) |-> each[i].violations])
    IN  IF \E i \in 1..Len(each) : each[i].threw
        THEN [threw |-> TRUE, passed |-> FALSE, violations |-> <<>>]
        ELSE [threw |-> FALSE, passed |-> Len(violations) = 0, violations |-> violations]

\* --------------------------------------------------------------- the tagger
\* Words and marks that response texts are put together from.
Vocabulary ==
    {<<"I", " ", "t", "h", "i", "n", "k">>, <<"S", "o">>, <<"m", "a", "y">>, <<"1", "9", "9", "9">>,
     <<".">>, <<" ">>}
EarthText ==
    <<"T", "h", "e", " ", "e", "a", "r", "t", "h", " ", "o", "r", "b", "i", "t", "s", " ", "t", "h", "e", " ", "s", "u", "n", ".", " ", "T", "h", "i", "s", " ", "i", "m", "p", "l", "i", "e", "s", " ",
      "g", "r", "a", "v", "i", "t", "y", " ", "i", "s", " ", "r", "e", "a", "l", ".">>
Texts == {Flatten(ts) : ts \in SeqsUpTo(Vocabulary, MaxTokens)} \cup {EarthText}

\* crypto.randomUUID(): the n-th identifier drawn.
FreshId(n) == StrV(<<"u", CHOOSE d \in DecimalDigits : \E i \in 1..10 : HexDigits[i] = d /\ i - 1 = n % 10>>)

InitEli ==
    /\ HaloIdle
    /\ CliIdle
    /\ LoaderIdle
    /\ epc = "start"
    /\ response \in Texts
    /\ pending = <<>>
    /\ cursor = 0
    /\ claims = <<>>
    /\ sentence_count = 0
    /\ validation = NoValidation

\* tagResponse, up to the loop: split, trim, drop the empty pieces.
TagStart ==
    /\ epc = "start"
    /\ pending' = SplitSentences(response)
    /\ sentence_count' = Len(pending')
    /\ claims' = <<>>
    /\ cursor' = 0
    /\ epc' = "loop"
    /\ UNCHANGED <<response, validation>>
    /\ UNCHANGED <<haloVars, cliVars, loaderVars>>

\* One iteration of for (const sentence of sentences).
TagSentence ==
    /\ epc = "loop" /\ pending # <<>>
    /\ LET sentence == Head(pending)
           start == IndexOf(response, sentence, cursor)
           end == start + Len(sentence)
       IN  /\ cursor' = end
           /\ claims' = Append(claims,
                               [id |-> FreshId(Len(claims) + 1),
                                type |-> classifySentence(sentence),
                                text |-> sentence,
                                span_refs |-> Arr(<<Arr(<<Num(start), Num(end)>>)>>)])
    /\ pending' = Tail(pending)
    /\ UNCHANGED <<epc, response, sentence_count, validation>>
    /\ UNCHANGED <<haloVars, cliVars, loaderVars>>

\* return { tagged_at, sentence_count, claims }
TagReturn ==
    /\ epc = "loop" /\ pending = <<>>
    /\ epc' = "tagged"
    /\ UNCHANGED <<response, pending, cursor, claims, sentence_count, validation>>
    /\ UNCHANGED <<haloVars, cliVars, loaderVars>>

\* validateLedger(ledger, llmResponse)
ValidateAct ==
    /\ epc = "tagged"
    /\ validation' = validateLedger(claims, response)
    /\ epc' = "validated"
    /\ UNCHANGED <<response, pending, cursor, claims, sentence_count>>
    /\ UNCHANGED <<haloVars, cliVars, loaderVars>>

SpecEli == InitEli /\ [][TagStart \/ TagSentence \/ TagReturn \/ ValidateAct]_vars

\* ------------------------------------------------- ledgers from a harness
\* Source texts: "So." and "It may be so."
ValidatorTexts ==
    {<<"S", "o", ".">>,
     <<"I", "t", " ", "m", "a", "y", " ", "b", "e", " ", "s", "o", ".">>}

\* The ledgers handed to validateLedger with a source text: one claim with any
\* id, type and span_refs of the kinds below, alone or next to a second claim
\* that is well formed, has an empty id, or has a number as id.
LedgerValues(text) ==
    LET whole == Arr(<<Num(0), Num(Len(text))>>)
        ids == {StrV(<<>>), StrV(<<" ">>), StrV(<<"c", "1">>), UndefV,
                [t |-> "number", s |-> <<"4", "2">>], [t |-> "number", s |-> <<"0">>]}
        types == EpiTypes \cup {"UNKNOWN", Undefined}
        bounds == {Num(k) : k \in {-1, 0, Len(text), Len(text) + 1}}
                      \cup {[t |-> "string", n |-> 0], NoBound}
        entries == {Arr(<<a, b>>) : a \in bounds, b \in bounds}
                       \cup {Arr(<<a>>) : a \in bounds} \cup {[t |-> "null", v |-> <<>>]}
        refs == {[t |-> "undefined", v |-> <<>>], [t |-> "object", v |-> <<>>], Arr(<<>>)}
                    \cup {Arr(<<e>>) : e \in entries}
                    \cup {Arr(<<whole, e>>) :
                             e \in {[t |-> "null", v |-> <<>>], Arr(<<Num(Len(text)), Num(0)>>)}}
        first == {[id |-> i, type |-> ty, text |-> text, span_refs |-> r] :
                     i \in ids, ty \in types, r \in refs}
        other == {[id |-> i, type |-> "ASSERTION", text |-> text, span_refs |-> Arr(<<whole>>)] :
                     i \in {StrV(<<"c", "2">>), StrV(<<>>), [t |-> "number", s |-> <<"7">>]}}
    IN  {<<c>> : c \in first}
            \cup {<<c, o>> : c \in first, o \in other}
            \cup {<<o, c>> : c \in first, o \in other}

InitValidator ==
    /\ HaloIdle
    /\ CliIdle
    /\ LoaderIdle
    /\ epc = "tagged"
    /\ response \in ValidatorTexts
    /\ claims \in LedgerValues(response)
    /\ pending = <<>>
    /\ cursor = 0
    /\ sentence_count = Len(claims)
    /\ validation = NoValidation

\* validateLedger on a ledger as a caller may hand it over.
SpecValidator == InitValidator /\ [][ValidateAct]_vars

\* ------------------------------------------------------------ receipt claims
SameKeyVerified == hpc = "verified" /\ verifyKey = signKey

\* C1: a receipt verified as signResponse returned it, with the signing key it
\* was signed with, is valid and carries no reason.
C1_RoundTrip ==
    (SameKeyVerified /\ receipt = issued) => verdict = [valid |-> TRUE, reason |-> NoReason]

C1_Witness ==
    /\ SameKeyVerified /\ receipt = issued
    /\ receipt.response # <<>>
    /\ verdict.valid

\* C2: a signed receipt whose response alone was replaced by a different string
\* is rejected with the hash-mismatch reason, and one whose signature alone was
\* replaced by a different string is rejected with a signature reason.
C2_TamperDetected ==
    SameKeyVerified =>
        /\ (receipt.response # issued.response
              /\ receipt = [issued EXCEPT !.response = receipt.response])
           => (~verdict.valid /\ verdict.reason = HashMismatch)
        /\ (receipt.signature # issued.signature
              /\ receipt = [issued EXCEPT !.signature = receipt.signature])
           => (~verdict.valid /\ verdict.reason \in {SigLengthMismatch, SigMismatch})

\* C3: a receipt that keeps the issued signature but differs from the issued
\* receipt in id, timestamp, responseHash or response is rejected under the
\* signing key.
C3_FieldsBound ==
    (/\ SameKeyVerified
     /\ receipt.signature = issued.signature
     /\ <<receipt.id, receipt.timestamp, receipt.responseHash, receipt.response>>
           # <<issued.id, issued.timestamp, issued.responseHash, issued.response>>)
    => ~verdict.valid

\* -------------------------------------------------------------- ledger claims
SpanStart(c) == c.span_refs.v[1].v[1].n
SpanEnd(c) == c.span_refs.v[1].v[2].n
ClaimTypes == [i \in 1..Len(claims) |-> claims[i].type]
HasRule(i, rule) ==
    \E k \in 1..Len(validation.violations) :
        validation.violations[k].claim = i /\ validation.violations[k].rule = rule

\* C4: every span of every claim the tagger has produced lies inside the
\* response text and is not empty: 0 <= start < end <= length of the text.
C4_SpanInvariant ==
    epc \in {"loop", "tagged", "validated"} =>
        \A i \in 1..Len(claims) :
            /\ Len(claims[i].span_refs.v) = 1
            /\ 0 <= SpanStart(claims[i])
            /\ SpanStart(claims[i]) < SpanEnd(claims[i])
            /\ SpanEnd(claims[i]) <= Len(response)

\* The tagger has returned two claims, the first after leading white space.
C4_Witness ==
    /\ epc = "tagged"
    /\ Len(claims) >= 2
    /\ SpanStart(claims[1]) > 0

\* C5: the claims are in textual order and their spans are pairwise disjoint:
\* the span of a claim ends at or before the start of the span of the next one.
C5_SpansAdvance ==
    epc \in {"loop", "tagged", "validated"} =>
        \A i \in 1..(Len(claims) - 1) : SpanEnd(claims[i]) <= SpanStart(claims[i + 1])

\* The same sentence string was tagged twice.
C5_Witness ==
    /\ epc = "tagged"
    /\ \E i \in 1..(Len(claims) - 1) :
          /\ claims[i].text = claims[i + 1].text
          /\ SpanEnd(claims[i]) < SpanStart(claims[i + 1])

\* C6: the type of a claim follows the precedence OPINION, INFERENCE, FACT,
\* ASSERTION over the cues its sentence matches; a sentence with an opinion cue
\* is typed OPINION whatever other cues it contains.
C6_Precedence ==
    \A i \in 1..Len(claims) :
        LET sentence == claims[i].text
            ty == claims[i].type
        IN  /\ TestOpinion(sentence) => ty = "OPINION"
            /\ (~TestOpinion(sentence) /\ TestInference(sentence)) => ty = "INFERENCE"
            /\ (~TestOpinion(sentence) /\ ~TestInference(sentence) /\ TestFact(sentence))
                  => ty = "FACT"
            /\ (~TestOpinion(sentence) /\ ~TestInference(sentence) /\ ~TestFact(sentence))
                  => ty = "ASSERTION"

\* A sentence with an opinion cue and an inference cue was typed.
C6_Witness ==
    \E i \in 1..Len(claims) :
        /\ TestOpinion(claims[i].text)
        /\ TestInference(claims[i].text)
        /\ claims[i].type = "OPINION"

\* C7 (as amended): for the text "The earth orbits the sun. This implies gravity
\* is real." the tagger returns exactly two claims, typed ASSERTION and FACT in
\* that order, and the validator passes that ledger against the same text.
C7_EarthScenario ==
    (response = EarthText /\ epc = "validated") =>
        /\ ClaimTypes = <<"ASSERTION", "FACT">>
        /\ validation = [threw |-> FALSE, passed |-> TRUE, violations |-> <<>>]

C7_Witness ==
    /\ response = EarthText /\ epc = "validated"
    /\ Len(claims) = 2

\* C7 as stated: the two claims are typed FACT and INFERENCE, and the ledger passes.
C7_AsStated ==
    (response = EarthText /\ epc = "validated") =>
        /\ ClaimTypes = <<"FACT", "INFERENCE">>
        /\ validation.passed

\* C8: the ledger the tagger produced from a text passes validation against
\* that text, with no violations.
C8_TaggedLedgerPasses ==
    epc = "validated" =>
        /\ ~validation.threw
        /\ validation.passed
        /\ validation.violations = <<>>

\* C9: validateLedger returns a result for every ledger, and the result reports
\* each defect of each claim: a missing id, an unknown type, missing span_refs,
\* a span entry that is not a pair of numbers.
C9_NeverThrows ==
    epc = "validated" =>
        /\ ~validation.threw
        /\ \A i \in 1..Len(claims) :
              /\ claims[i].id.t # "string" => HasRule(i, "MISSING_ID")
              /\ claims[i].type \notin EpiTypes => HasRule(i, "INVALID_TYPE")
              /\ claims[i].span_refs.t # "array" => HasRule(i, "NO_SPAN_REF")
              /\ (claims[i].span_refs.t = "array"
                    /\ \E k \in 1..Len(claims[i].span_refs.v) :
                          LET e == claims[i].span_refs.v[k]
                          IN  \/ e.t # "array"
                              \/ Len(e.v) # 2
                              \/ \E j \in 1..Len(e.v) : e.v[j].t # "number")
                 => HasRule(i, "INVALID_SPAN")

\* C10: in the result of validateLedger every claim with an empty or
\* white-space-only id has a MISSING_ID violation and every claim with an empty
\* span_refs has a NO_SPAN_REF violation, whatever its other fields, and the
\* result then has passed = false; passed is true only without violations.
C10_Soundness ==
    epc = "validated" =>
        /\ \A i \in 1..Len(claims) :
              /\ (claims[i].id.t = "string" /\ Trim(claims[i].id.s) = <<>>)
                    => (HasRule(i, "MISSING_ID") /\ ~validation.passed)
              /\ claims[i].span_refs = Arr(<<>>)
                    => (HasRule(i, "NO_SPAN_REF") /\ ~validation.passed)
        /\ validation.passed => validation.violations = <<>>

\* C11: in the result of validateLedger a claim has an INFERENCE_LAUNDERING
\* violation exactly when its type is INFERENCE, it has at least one span, and
\* the source text sliced by its first span holds no hedging token; so an
\* INFERENCE claim whose span text is "So." is flagged.
C11_LaunderingExact ==
    epc = "validated" =>
        \A i \in 1..Len(claims) :
            LET refs == claims[i].span_refs
            IN  HasRule(i, "INFERENCE_LAUNDERING")
                    <=> /\ claims[i].type = "INFERENCE"
                        /\ refs.t = "array" /\ Len(refs.v) > 0
                        /\ ~TestHedge(Slice(response, First(refs.v[1]), Second(refs.v[1])))

\* ================================================== the Valet ingest bridge
\* ------------------------------------------------------------- JSON values
\* A JSON value is [t, v]: t its type, v its content. For a string v holds the
\* code units, for a number or a boolean the text JSON.stringify writes for
\* it, for an array the items, and for an object the members <<key, value>>
\* in the order Object.keys lists them.
JNull == [t |-> "null", v |-> <<>>]
JBool(text) == [t |-> "boolean", v |-> text]
JNum(digits) == [t |-> "number", v |-> digits]
JStr(s) == [t |-> "string", v |-> s]
JArr(items) == [t |-> "array", v |-> items]
JObj(members) == [t |-> "object", v |-> members]
JUndefined == [t |-> "undefined", v |-> <<>>]

\* The printable ASCII code units, U+0020 to U+007E, in code order; the grave
\* accent is written u0060.
AsciiCodes ==
    LET Ascii ==
        <<" ", "!", "\"", "#", "$", "%", "&", "'", "(", ")", "*", "+", ",", "-", ".", "/",
          "0", "1", "2", "3", "4", "5", "6", "7", "8", "9", ":", ";", "<", "=", ">", "?",
          "@", "A", "B", "C", "D", "E", "F", "G", "H", "I", "J", "K", "L", "M", "N", "O",
          "P", "Q", "R", "S", "T", "U", "V", "W", "X", "Y", "Z", "[", "\\", "]", "^", "_",
          "u0060", "a", "b", "c", "d", "e", "f", "g", "h", "i", "j", "k", "l", "m", "n", "o",
          "p", "q", "r", "s", "t", "u", "v", "w", "x", "y", "z", "{", "|", "}", "~">>
    IN  [c \in {Ascii[i] : i \in 1..Len(Ascii)} |-> 31 + CHOOSE i \in 1..Len(Ascii) : Ascii[i] = c]
CodeUnit(c) ==
    IF c = uD800 THEN 55296
    ELSE IF c = uFFFD THEN 65533
    ELSE IF c = "\n" THEN 10
    ELSE AsciiCodes[c]

\* JSON.stringify of a string: quoted, with the quote, the backslash and the
\* line feed escaped and a surrogate without its pair written as \udXXX.
Quote(s) ==
    <<"\"">> \o Flatten([i \in 1..Len(s) |->
                  IF s[i] = "\"" THEN <<"\\", "\"">>
                  ELSE IF s[i] = "\\" THEN <<"\\", "\\">>
                  ELSE IF s[i] = "\n" THEN <<"\\", "n">>
                  ELSE IF s[i] = uD800 THEN <<"\\", "u", "d", "8", "0", "0">>
                  ELSE <<s[i]>>]) \o <<"\"">>

\* Array.prototype.join
RECURSIVE Join(_, _)
Join(parts, sep) ==
    IF parts = <<>> THEN <<>>
    ELSE IF Len(parts) = 1 THEN parts[1]
    ELSE parts[1] \o sep \o Join(Tail(parts), sep)

\* The order of Array.prototype.sort without a comparator: by code units, a
\* proper prefix first.
StringBefore(x, y) ==
    \E k \in 0..Len(x) :
        /\ k <= Len(y)
        /\ \A j \in 1..k : x[j] = y[j]
        /\ \/ k = Len(x) /\ k < Len(y)
           \/ k < Len(x) /\ k < Len(y) /\ CodeUnit(x[k + 1]) < CodeUnit(y[k + 1])

KeepOrder(keys) == keys
RECURSIVE SortStrings(_)
SortStrings(keys) ==
    IF keys = <<>> THEN <<>>
    ELSE LET i == CHOOSE k \in 1..Len(keys) :
                      \A j \in 1..Len(keys) : j # k => StringBefore(keys[k], keys[j])
         IN  <<keys[i]>> \o SortStrings(SubSeq(keys, 1, i - 1) \o SubSeq(keys, i + 1, Len(keys)))

\* Object.keys(record), in the order the members were inserted, and record[key]
ObjectKeys(record) == [i \in 1..Len(record.v) |-> record.v[i][1]]
Member(record, key) ==
    IF record.t = "object" /\ \E i \in 1..Len(record.v) : record.v[i][1] = key
    THEN record.v[CHOOSE i \in 1..Len(record.v) : record.v[i][1] = key][2]
    ELSE JUndefined

\* canonicalJson of src/cli/ingestValet.ts
RECURSIVE canonicalJson(_)
canonicalJson(value) ==
    IF value.t = "null" THEN <<"n", "u", "l", "l">>
    ELSE IF value.t = "string" THEN Quote(value.v)
    ELSE IF value.t \in {"number", "boolean"} THEN value.v
    ELSE IF value.t = "array"
    THEN <<"[">> \o Join([i \in 1..Len(value.v) |-> canonicalJson(value.v[i])], <<",">>) \o <<"]">>
    ELSE IF value.t = "object"
    THEN LET keys == SortStrings(ObjectKeys(value))
             entries == [i \in 1..Len(keys) |->
                            Quote(keys[i]) \o <<":">> \o canonicalJson(Member(value, keys[i]))]
         IN  <<"{">> \o Join(entries, <<",">>) \o <<"}">>
    ELSE Quote(<<"u", "n", "d", "e", "f", "i", "n", "e", "d">>)

\* canonicalize of the inspector's local verification
RECURSIVE canonicalize(_)
canonicalize(value) ==
    IF value.t = "null" THEN <<"n", "u", "l", "l">>
    ELSE IF value.t = "string" THEN Quote(value.v)
    ELSE IF value.t \in {"number", "boolean"} THEN value.v
    ELSE IF value.t = "array"
    THEN <<"[">> \o Join([i \in 1..Len(value.v) |-> canonicalize(value.v[i])], <<",">>) \o <<"]">>
    ELSE IF value.t = "object"
    THEN LET keys == SortStrings(ObjectKeys(value))
             entries == [i \in 1..Len(keys) |->
                            Quote(keys[i]) \o <<":">> \o canonicalize(Member(value, keys[i]))]
         IN  <<"{">> \o Join(entries, <<",">>) \o <<"}">>
    ELSE Quote(<<"u", "n", "d", "e", "f", "i", "n", "e", "d">>)

\* ------------------------------------------- values handed to a canonicalizer
\* Most members of an object and most items of an array below the top level.
MaxMembers == 2

\* value = { z: 1, a: { c: 2, b: 1 } } of the inspector's unit test.
StableOrderValue ==
    JObj(<< <<<<"z">>, JNum(<<"1">>)>>,
            <<<<"a">>, JObj(<< <<<<"c">>, JNum(<<"2">>)>>, <<<<"b">>, JNum(<<"1">>)>> >>)>> >>)

\* The values handed over: objects of up to two members and arrays of two
\* items, each member or item a number, a string, or an array or object of
\* those; the unit test's value; and an object whose keys differ in case and
\* length.
CanonValues ==
    LET leaves == {JNum(<<"1">>), JStr(<<"a">>)}
        membersOver(V, n) ==
            {m \in SeqsUpTo({<<"a">>, <<"b">>} \X V, n) :
                \A i, j \in 1..Len(m) : i # j => m[i][1] # m[j][1]}
        inner == leaves
                     \cup {JArr(s) : s \in SeqsUpTo(leaves, MaxMembers)}
                     \cup {JObj(m) : m \in membersOver(leaves, MaxMembers)}
        true == JBool(<<"t", "r", "u", "e">>)
    IN  {JObj(m) : m \in membersOver(inner, 2)}
            \cup {JArr(<<x, y>>) : x, y \in inner}
            \cup {StableOrderValue,
                  JObj(<< <<<<"b">>, JNull>>, <<<<"a", "a">>, true>>,
                          <<<<"B">>, JStr(<<"\"">>)>>, <<<<"a">>, JArr(<<JNull, true>>)>> >>)}

\* The sequences with the items of s in another order.
Reordered(s) == {[i \in 1..Len(s) |-> s[f[i]]] : f \in Permutations(1..Len(s))}

\* The values that differ from value only in the order in which the keys of
\* its objects were inserted, at every depth.
RECURSIVE KeyReorderings(_)
KeyReorderings(value) ==
    IF value.t \notin {"array", "object"} THEN {value}
    ELSE LET n == Len(value.v)
             each == [i \in 1..n |->
                         IF value.t = "array" THEN KeyReorderings(value.v[i])
                         ELSE {<<value.v[i][1], w>> : w \in KeyReorderings(value.v[i][2])}]
             pool == UNION {each[i] : i \in 1..n}
             lists == {s \in [1..n -> pool] : \A i \in 1..n : s[i] \in each[i]}
         IN  IF value.t = "array" THEN {JArr(s) : s \in lists}
             ELSE {JObj(p) : p \in UNION {Reordered(s) : s \in lists}}

InitCanon ==
    /\ HaloIdle
    /\ LoaderIdle
    /\ EliIdle
    /\ cpc = "canon"
    /\ \E a \in CanonValues :
          \E b \in KeyReorderings(a)
                       \cup (IF a.t = "array" THEN {JArr(s) : s \in Reordered(a.v)} ELSE {}) :
              canonIn = <<a, b>>
    /\ canonOut = <<>>
    /\ ckInput = <<>> /\ made = <<>> /\ handed = <<>> /\ ckKeys = <<>> /\ ckResult = <<>>
    /\ env = <<>> /\ receiptJson = <<>> /\ hmacResult = <<>> /\ checks = <<>>
    /\ files = {} /\ exitCode = -1 /\ report = <<>>
    /\ rival = <<>> /\ rivalResult = <<>> /\ normalized = <<>> /\ localVerification = <<>>

\* The bridge serialises both values.
CanonicalizeCli ==
    /\ cpc = "canon"
    /\ canonOut' = <<canonicalJson(canonIn[1]), canonicalJson(canonIn[2])>>
    /\ cpc' = "canon-cli"
    /\ UNCHANGED canonIn
    /\ UNCHANGED <<loaderVars, haloVars, eliVars, localVerification, ckInput, made, handed, ckKeys, ckResult>>
    /\ UNCHANGED <<env, receiptJson, hmacResult, checks, files, exitCode, report>>
    /\ UNCHANGED <<rival, rivalResult, normalized>>

\* The inspector serialises the same two values.
CanonicalizeInspector ==
    /\ cpc = "canon-cli"
    /\ canonOut' = canonOut \o <<canonicalize(canonIn[1]), canonicalize(canonIn[2])>>
    /\ cpc' = "canon-both"
    /\ UNCHANGED canonIn
    /\ UNCHANGED <<loaderVars, haloVars, eliVars, localVerification, ckInput, made, handed, ckKeys, ckResult>>
    /\ UNCHANGED <<env, receiptJson, hmacResult, checks, files, exitCode, report>>
    /\ UNCHANGED <<rival, rivalResult, normalized>>

SpecCanon == InitCanon /\ [][CanonicalizeCli \/ CanonicalizeInspector]_vars

\* ---------------------------------------------------- digests, keys, signing
\* Buffer.from(input, "utf8"): a surrogate without its pair becomes U+FFFD.
Utf8Bytes(s) ==
    Flatten([i \in 1..Len(s) |->
        IF s[i] \in {uD800, uFFFD} THEN <<239, 191, 189>> ELSE <<CodeUnit(s[i])>>])

\* sha256Hex(input), the digest idealised as collision-free: the bytes hashed.
sha256Hex(input) == ToHex(Utf8Bytes(input))

\* A PEM text: what it holds (a private or a public Ed25519 key and which one,
\* no key at all, the empty string, or undefined) and whether its line breaks
\* are written as the two characters \n.
PemKey(kind, id) == [kind |-> kind, id |-> id, escaped |-> FALSE]
NoPem == PemKey("undefined", 0)
normalizePem(rawPem) == [rawPem EXCEPT !.escaped = FALSE]

\* createPrivateKey(pem) and createPublicKey(pem): the key, 0 when the call
\* throws. A public key is also read from the PEM of a private key.
PrivateKeyOf(pem) == IF pem.kind = "private" /\ ~pem.escaped THEN pem.id ELSE 0
PublicKeyOf(pem) == IF pem.kind \in {"private", "public"} /\ ~pem.escaped THEN pem.id ELSE 0

\* derivePublicKeyPemFromPrivate(privateKeyPem); the first definition is one
\* that never derives a key.
DeriveNothing(privateKeyPem) == NoPem
derivePublicKeyPemFromPrivate(privateKeyPem) ==
    IF privateKeyPem.kind \in {"undefined", "empty"} THEN NoPem
    ELSE IF PrivateKeyOf(normalizePem(privateKeyPem)) = 0 THEN NoPem
    ELSE PemKey("public", privateKeyPem.id)

\* Ed25519, idealised as unforgeable: the signature of a payload under a key
\* names the key and the payload, and verifies under that key's public half.
Ed25519Sign(key, payload) == <<key>> \o Utf8Bytes(payload)

Base64Alphabet ==
    <<"A", "B", "C", "D", "E", "F", "G", "H", "I", "J", "K", "L", "M", "N", "O", "P",
      "Q", "R", "S", "T", "U", "V", "W", "X", "Y", "Z", "a", "b", "c", "d", "e", "f",
      "g", "h", "i", "j", "k", "l", "m", "n", "o", "p", "q", "r", "s", "t", "u", "v",
      "w", "x", "y", "z", "0", "1", "2", "3", "4", "5", "6", "7", "8", "9", "+", "/">>

Base64Values == [c \in {Base64Alphabet[i] : i \in 1..64} |-> (CHOOSE i \in 1..64 : Base64Alphabet[i] = c) - 1]

\* buffer.toString("base64")
ToBase64(bytes) ==
    LET n == Len(bytes)
        at(i) == IF i <= n THEN bytes[i] ELSE 0
        group(g) ==
            LET b1 == at(3 * g - 2)
                b2 == at(3 * g - 1)
                b3 == at(3 * g)
            IN  <<Base64Alphabet[(b1 \div 4) + 1],
                  Base64Alphabet[(b1 % 4) * 16 + (b2 \div 16) + 1],
                  IF 3 * g - 1 <= n THEN Base64Alphabet[(b2 % 16) * 4 + (b3 \div 64) + 1] ELSE "=",
                  IF 3 * g <= n THEN Base64Alphabet[(b3 % 64) + 1] ELSE "=">>
    IN  Flatten([g \in 1..((n + 2) \div 3) |-> group(g)])

\* Buffer.from(text, "base64"): code units outside the alphabet are skipped.
FromBase64(text) ==
    LET decode(digits) ==
            LET val(k) == Base64Values[digits[k]]
                byte(j) ==
                    LET g == 4 * ((j - 1) \div 3)
                        r == (j - 1) % 3
                    IN  IF r = 0 THEN val(g + 1) * 4 + (val(g + 2) \div 16)
                        ELSE IF r = 1 THEN (val(g + 2) % 16) * 16 + (val(g + 3) \div 4)
                        ELSE (val(g + 3) % 4) * 64 + val(g + 4)
            IN  [j \in 1..((Len(digits) * 6) \div 8) |-> byte(j)]
    IN  CHOOSE bytes \in {decode(digits) :
                             digits \in {SelectSeq(text, LAMBDA c : c \in DOMAIN Base64Values)}} : TRUE

\* ------------------------------------------------------------- transcripts
asString(value) == IF value.t = "string" /\ Len(value.v) > 0 THEN value ELSE JUndefined
asRecord(value) == IF value.t = "object" THEN value ELSE JUndefined
\* a ?? b; the first definition takes the right operand whenever it is present
CoalesceLast(a, b) == IF b.t \in {"undefined", "null"} THEN a ELSE b
Coalesce(a, b) == IF a.t \in {"undefined", "null"} THEN b ELSE a

asMessageArray(value) ==
    IF value.t # "array" THEN JUndefined
    ELSE LET records == SelectSeq(value.v, LAMBDA e : e.t = "object")
             items == [i \in 1..Len(records) |->
                 JObj(<< <<<<"r", "o", "l", "e">>,
                           Coalesce(asString(Member(records[i], <<"r", "o", "l", "e">>)),
                           Coalesce(asString(Member(records[i], <<"s", "p", "e", "a", "k", "e", "r">>)),
                           Coalesce(asString(Member(records[i], <<"a", "u", "t", "h", "o", "r">>)),
                                    JStr(<<"a", "s", "s", "i", "s", "t", "a", "n", "t">>))))>>,
                         <<<<"c", "o", "n", "t", "e", "n", "t">>,
                           Coalesce(asString(Member(records[i], <<"c", "o", "n", "t", "e", "n", "t">>)),
                           Coalesce(asString(Member(records[i], <<"t", "e", "x", "t">>)),
                           Coalesce(asString(Member(records[i], <<"m", "e", "s", "s", "a", "g", "e">>)),
                                    JStr(<<>>))))>> >>)]
             kept == SelectSeq(items, LAMBDA m : Len(Member(m, <<"c", "o", "n", "t", "e", "n", "t">>).v) > 0)
         IN  IF Len(kept) > 0 THEN JArr(kept) ELSE JUndefined

extractAssistantText(transcript) ==
    LET messages == Coalesce(asMessageArray(Member(transcript, <<"m", "e", "s", "s", "a", "g", "e", "s">>)), JArr(<<>>)).v
        lower(s) == [i \in 1..Len(s) |-> ToLower(s[i])]
        assistant == SelectSeq(messages,
                               LAMBDA m : lower(Member(m, <<"r", "o", "l", "e">>).v) = <<"a", "s", "s", "i", "s", "t", "a", "n", "t">>)
    IN  Join([i \in 1..Len(assistant) |-> Member(assistant[i], <<"c", "o", "n", "t", "e", "n", "t">>).v], <<"\n">>)

\* tagResponseToLedger(outputText).claims mapped to eli_assertions: the type,
\* the sentence, and the span as JSON.stringify writes it.
EliAssertions(outputText) ==
    LET RECURSIVE Decimal(_)
        Decimal(n) ==
            IF n < 10 THEN <<HexDigits[n + 1]>>
            ELSE Decimal(n \div 10) \o <<HexDigits[(n % 10) + 1]>>
        RECURSIVE from(_, _)
        from(sentences, searchFrom) ==
            IF sentences = <<>> THEN <<>>
            ELSE LET sentence == Head(sentences)
                     start == IndexOf(outputText, sentence, searchFrom)
                     end == start + Len(sentence)
                 IN  <<[assertion_type |-> classifySentence(sentence),
                        text |-> sentence,
                        sources |-> <<<<"[">> \o Decimal(start) \o <<",">> \o Decimal(end)
                                          \o <<"]">>>>]>>
                         \o from(Tail(sentences), end)
    IN  from(SplitSentences(outputText), 0)

\* -------------------------------------------------------------- checkpoint
\* DOMAIN_PREFIX + canonicalJson(envelope)
EnvelopePayload(receipt_version, receipt_id, content_hash, signature_scheme) ==
    <<"H", "A", "L", "O", "_", "M", "A", "S", "T", "E", "R", "_", "R", "E", "C", "E", "I", "P", "T", "_", "V", "1", "|">>
        \o canonicalJson(JObj(<< <<<<"r", "e", "c", "e", "i", "p", "t", "_", "v", "e", "r", "s", "i", "o", "n">>, JStr(receipt_version)>>,
                                           <<<<"r", "e", "c", "e", "i", "p", "t", "_", "i", "d">>, JStr(receipt_id)>>,
                                           <<<<"c", "o", "n", "t", "e", "n", "t", "_", "h", "a", "s", "h">>, JStr(content_hash)>>,
                                           <<<<"s", "i", "g", "n", "a", "t", "u", "r", "e", "_", "s", "c", "h", "e", "m", "e">>, JStr(signature_scheme)>> >>))

\* JSON.stringify(value): members in the order Object.keys lists them.
RECURSIVE JsonStringify(_)
JsonStringify(value) ==
    IF value.t = "null" THEN <<"n", "u", "l", "l">>
    ELSE IF value.t = "string" THEN Quote(value.v)
    ELSE IF value.t \in {"number", "boolean"} THEN value.v
    ELSE IF value.t = "array"
    THEN <<"[">> \o Join([i \in 1..Len(value.v) |->
                             IF value.v[i].t = "undefined" THEN <<"n", "u", "l", "l">>
                             ELSE JsonStringify(value.v[i])], <<",">>) \o <<"]">>
    ELSE LET members == SelectSeq(value.v, LAMBDA m : m[2].t # "undefined")
         IN  <<"{">> \o Join([i \in 1..Len(members) |->
                                 Quote(members[i][1]) \o <<":">> \o JsonStringify(members[i][2])],
                             <<",">>) \o <<"}">>

\* const contentHash = sha256Hex(canonicalJson(input.transcript))
ContentHashUnsorted(transcript) == sha256Hex(JsonStringify(transcript))
ContentHash(transcript) == sha256Hex(canonicalJson(transcript))

\* createMasterReceipt(input) with the identifier and the time it draws; threw
\* when createPrivateKey rejects the signing key.
createMasterReceipt(input, receiptId, now) ==
    LET contentHash == ContentHash(input.transcript)
        envelopePayload == EnvelopePayload(<<"h", "a", "l", "o", ".", "m", "a", "s", "t", "e", "r", ".", "v", "1">>, receiptId, contentHash, <<"e", "d", "2", "5", "5", "1", "9">>)
        privateKey == PrivateKeyOf(normalizePem(input.signingKeyPem))
        signature == ToBase64(Ed25519Sign(privateKey, envelopePayload))
        assistantText == extractAssistantText(input.transcript)
    IN  IF privateKey = 0 THEN [threw |-> TRUE]
        ELSE [threw |-> FALSE,
              master_receipt |->
                  [receipt_version |-> <<"h", "a", "l", "o", ".", "m", "a", "s", "t", "e", "r", ".", "v", "1">>,
                   receipt_id |-> receiptId,
                   content_hash |-> contentHash,
                   signature_scheme |-> <<"e", "d", "2", "5", "5", "1", "9">>,
                   signature |-> signature,
                   metadata |-> [source |-> <<"v", "a", "l", "e", "t", "-", "i", "n", "g", "e", "s", "t", "-", "b", "r", "i", "d", "g", "e">>,
                                 ingested_at |-> now,
                                 source_dir |-> input.sourceDir,
                                 source_receipt_file |-> input.sourceReceiptFile,
                                 public_key |-> NoPem],
                   verification |-> [derived_status |-> <<"P", "A", "S", "S">>,
                                     verified_at |-> now,
                                     valet_hmac_strategy |-> input.matchedHmacStrategy,
                                     checks |-> <<<<"v", "a", "l", "e", "t", "_", "h", "m", "a", "c", "_", "v", "e", "r", "i", "f", "i", "e", "d">>,
                                                  <<"c", "o", "n", "t", "e", "n", "t", "_", "h", "a", "s", "h", "_", "c", "o", "m", "p", "u", "t", "e", "d">>,
                                                  <<"e", "d", "2", "5", "5", "1", "9", "_", "c", "h", "e", "c", "k", "p", "o", "i", "n", "t", "_", "g", "e", "n", "e", "r", "a", "t", "e", "d">>>>]],
              evidence_pack |->
                  [receipt_id |-> receiptId,
                   content_hash |-> contentHash,
                   valet_source |-> [source_dir |-> input.sourceDir,
                                     files |-> input.sourceFiles,
                                     source_receipt_file |-> input.sourceReceiptFile],
                   transcript |-> input.transcript,
                   eli_assertions |-> IF assistantText # <<>> THEN EliAssertions(assistantText)
                                      ELSE <<>>,
                   notes |-> <<"S", "e", "n", "s", "i", "t", "i", "v", "e", " ", "e", "v", "i", "d", "e", "n", "c", "e", " ", "p", "a", "c", "k", ".", " ", "D", "o", " ", "n", "o", "t", " ", "s", "h", "a", "r", "e", " ", "e", "x", "t", "e", "r", "n", "a", "l", "l", "y", " ", "w", "i", "t", "h", "o", "u", "t", " ", "p", "o", "l", "i", "c", "y", " ", "r", "e", "v", "i", "e", "w", ".">>]]

\* The hash verifyCheckpointOffline computes from the evidence pack; the first
\* definition is a verifier that takes the hash the pack states.
ExpectedHashStored(evidencePack) == evidencePack.content_hash
ExpectedHash(evidencePack) == sha256Hex(canonicalJson(evidencePack.transcript))

\* verifyCheckpointOffline(input); threw when createPublicKey rejects the key.
verifyCheckpointOffline(input) ==
    LET master == input.masterReceipt
        payload == EnvelopePayload(master.receipt_version, master.receipt_id,
                                   master.content_hash, master.signature_scheme)
        derived == derivePublicKeyPemFromPrivate(input.signingKeyPem)
        publicKeyPem ==
            IF input.verifyKeyPem.kind # "undefined" THEN input.verifyKeyPem
            ELSE IF derived.kind # "undefined" THEN derived
            ELSE IF master.metadata.public_key.kind = "empty" THEN NoPem
            ELSE master.metadata.public_key
        publicKey == PublicKeyOf(normalizePem(publicKeyPem))
        failed(reason) == [threw |-> FALSE, ok |-> FALSE, reason |-> reason]
    IN  IF ExpectedHash(input.evidencePack) # master.content_hash
        THEN failed("content_hash mismatch between master receipt and evidence transcript")
        ELSE IF input.evidencePack.content_hash # master.content_hash
        THEN failed("evidence_pack.content_hash mismatch with master receipt")
        ELSE IF publicKeyPem.kind \in {"undefined", "empty"}
        THEN failed("missing verify key (RECEIPT_VERIFY_KEY) for Ed25519 verification")
        ELSE IF publicKey = 0 THEN [threw |-> TRUE, ok |-> FALSE, reason |-> "(thrown)"]
        ELSE IF FromBase64(master.signature) = Ed25519Sign(publicKey, payload)
        THEN [threw |-> FALSE, ok |-> TRUE, reason |-> "(none)"]
        ELSE failed("ed25519 signature verification failed")

\* ------------------------------------------------- a checkpoint and a harness
\* Transcripts handed to createMasterReceipt: one assistant message "So.", the
\* same with its keys inserted in another order, a user and an assistant
\* message, and an assistant message that is a lone surrogate or U+FFFD.
CheckpointTranscripts ==
    LET message(role, content) ==
            JObj(<< <<<<"r", "o", "l", "e">>, JStr(role)>>, <<<<"c", "o", "n", "t", "e", "n", "t">>, JStr(content)>> >>)
        transcript(messages) ==
            JObj(<< <<<<"m", "e", "s", "s", "a", "g", "e", "s">>, JArr(messages)>>, <<<<"m", "o", "d", "e", "l">>, JStr(<<"m">>)>>,
                    <<<<"c", "r", "e", "a", "t", "e", "d", "_", "a", "t">>, JStr(<<"t">>)>> >>)
    IN  {transcript(<<message(<<"a", "s", "s", "i", "s", "t", "a", "n", "t">>, <<"S", "o", ".">>)>>),
         JObj(<< <<<<"c", "r", "e", "a", "t", "e", "d", "_", "a", "t">>, JStr(<<"t">>)>>, <<<<"m", "o", "d", "e", "l">>, JStr(<<"m">>)>>,
                 <<<<"m", "e", "s", "s", "a", "g", "e", "s">>, JArr(<<JObj(<< <<<<"c", "o", "n", "t", "e", "n", "t">>, JStr(<<"S", "o", ".">>)>>,
                                                <<<<"r", "o", "l", "e">>, JStr(<<"a", "s", "s", "i", "s", "t", "a", "n", "t">>)>> >>)>>)>> >>),
         transcript(<<message(<<"u", "s", "e", "r">>, <<"a">>), message(<<"a", "s", "s", "i", "s", "t", "a", "n", "t">>, <<"I", "t", " ", "m", "a", "y", " ", "b", "e", " ", "s", "o", ".">>)>>),
         transcript(<<message(<<"a", "s", "s", "i", "s", "t", "a", "n", "t">>, <<uD800>>)>>),
         transcript(<<message(<<"a", "s", "s", "i", "s", "t", "a", "n", "t">>, <<uFFFD>>)>>)}

\* PEM texts handed over as keys: the two key pairs, the first pair's texts
\* with escaped line breaks, a text that holds no key, the empty string.
SigningPems == {PemKey("private", 1), [PemKey("private", 1) EXCEPT !.escaped = TRUE],
                PemKey("private", 2),
                PemKey("malformed", 0)}

InitCheckpoint ==
    /\ HaloIdle
    /\ LoaderIdle
    /\ EliIdle
    /\ cpc = "ck-input"
    /\ canonIn = <<>> /\ canonOut = <<>>
    /\ ckInput \in [transcript : CheckpointTranscripts,
                    sourceDir : {<<"/", "d">>, <<"t", "r", "a", "n", "s", "c", "r", "i", "p", "t">>},
                    sourceReceiptFile : {<<"r", "e", "c", "e", "i", "p", "t", ".", "j", "s", "o", "n">>},
                    sourceFiles : {<<[file |-> <<"r", "e", "c", "e", "i", "p", "t", ".", "j", "s", "o", "n">>, sha256 |-> sha256Hex(<<"r">>)]>>},
                    matchedHmacStrategy : {<<"c", "a", "n", "o", "n", "i", "c", "a", "l", "_", "t", "r", "a", "n", "s", "c", "r", "i", "p", "t">>},
                    signingKeyPem : SigningPems]
    /\ made = <<>> /\ handed = <<>> /\ ckKeys = <<>> /\ ckResult = <<>>
    /\ env = <<>> /\ receiptJson = <<>> /\ hmacResult = <<>> /\ checks = <<>>
    /\ files = {} /\ exitCode = -1 /\ report = <<>>
    /\ rival = <<>> /\ rivalResult = <<>> /\ normalized = <<>> /\ localVerification = <<>>

\* createMasterReceipt(ckInput)
CreateMasterReceipt ==
    /\ cpc = "ck-input"
    /\ \E receiptId \in UUIDs, now \in Timestamps :
          \E r \in {createMasterReceipt(ckInput, receiptId, now)} :
              IF r.threw
              THEN cpc' = "ck-threw" /\ UNCHANGED <<made, handed>>
              ELSE /\ cpc' = "ck-made"
                   /\ made' = [master_receipt |-> r.master_receipt,
                               evidence_pack |-> r.evidence_pack]
                   /\ handed' = made'
    /\ UNCHANGED <<ckInput, ckKeys, ckResult>>
    /\ UNCHANGED <<loaderVars, haloVars, eliVars, localVerification, canonIn, canonOut>>
    /\ UNCHANGED <<env, receiptJson, hmacResult, checks, files, exitCode, report>>
    /\ UNCHANGED <<rival, rivalResult, normalized>>

\* flipHexChar(input)
flipHexChar(input) ==
    IF Len(input) = 0 THEN <<"0">>
    ELSE <<IF ToLower(input[1]) = "0" THEN "1" ELSE "0">> \o Tail(input)

\* A harness replaces one thing in the pair it was handed. In the evidence
\* pack: the transcript, by another one or by the same with a member
\* __tampered: true; the eli_assertions, the receipt_id, the source_dir, the
\* notes, the content_hash. In the master receipt: one hex character of
\* content_hash, the first as flipHexChar does or the last; the signature, by
\* a text that is no base64; the public key its metadata states.
AlterPair ==
    /\ cpc = "ck-verified"
    /\ LET pack == handed.evidence_pack
           master == handed.master_receipt
           transcripts ==
               (CheckpointTranscripts
                   \cup {JObj(Append(pack.transcript.v,
                                     <<<<"_", "_", "t", "a", "m", "p", "e", "r", "e", "d">>, JBool(<<"t", "r", "u", "e">>)>>))})
                   \ {pack.transcript}
           packs ==
               {[pack EXCEPT !.transcript = t] : t \in transcripts}
                   \cup {[pack EXCEPT !.eli_assertions =
                                          Append(@, [assertion_type |-> "FACT",
                                                     text |-> <<"I", "t", " ", "i", "s", " ", "s", "o", ".">>,
                                                     sources |-> <<<<"[", "0", ",", "9", "]">>>>])],
                         [pack EXCEPT !.receipt_id = @ \o <<"x">>],
                         [pack EXCEPT !.valet_source.source_dir = <<"/", "e">>],
                         [pack EXCEPT !.notes = <<>>],
                         [pack EXCEPT !.content_hash = flipHexChar(@)]}
           masters ==
               {[master EXCEPT !.content_hash = flipHexChar(@)],
                [master EXCEPT !.content_hash[Len(master.content_hash)] =
                                   IF @ = "0" THEN "1" ELSE "0"],
                [master EXCEPT !.signature = <<"!", "!">>]}
                   \cup {[master EXCEPT !.metadata.public_key = k] :
                            k \in {PemKey("public", 1), PemKey("public", 2)}}
       IN  \/ \E p \in packs : handed' = [handed EXCEPT !.evidence_pack = p]
           \/ \E m \in masters : handed' = [handed EXCEPT !.master_receipt = m]
    /\ cpc' = "ck-altered"
    /\ UNCHANGED <<ckInput, made, ckKeys, ckResult>>
    /\ UNCHANGED <<loaderVars, haloVars, eliVars, localVerification, canonIn, canonOut>>
    /\ UNCHANGED <<env, receiptJson, hmacResult, checks, files, exitCode, report>>
    /\ UNCHANGED <<rival, rivalResult, normalized>>

\* verifyCheckpointOffline on the pair as it is now: on the pair as made with
\* a verify key, a signing key or both, and on an altered pair with the keys
\* of the first call. ckResult lists the results in the order of the calls.
VerifyCheckpointOffline ==
    /\ cpc \in {"ck-made", "ck-altered"}
    /\ \E keys \in {[verifyKeyPem |-> v, signingKeyPem |-> NoPem] :
                       v \in {NoPem, PemKey("empty", 0), PemKey("public", 1),
                              [PemKey("public", 1) EXCEPT !.escaped = TRUE],
                              PemKey("public", 2), PemKey("malformed", 0)}}
                   \cup {[verifyKeyPem |-> NoPem, signingKeyPem |-> s] : s \in SigningPems}
                   \cup {[verifyKeyPem |-> v, signingKeyPem |-> PemKey("private", 1)] :
                            v \in {PemKey("empty", 0), PemKey("public", 2)}} :
          /\ cpc = "ck-altered" => keys = ckKeys
          /\ ckKeys' = keys
          /\ ckResult' = Append(ckResult,
                                verifyCheckpointOffline([masterReceipt |-> handed.master_receipt,
                                                         evidencePack |-> handed.evidence_pack,
                                                         verifyKeyPem |-> keys.verifyKeyPem,
                                                         signingKeyPem |-> keys.signingKeyPem]))
    /\ cpc' = IF cpc = "ck-made" THEN "ck-verified" ELSE "ck-reverified"
    /\ UNCHANGED <<ckInput, made, handed>>
    /\ UNCHANGED <<loaderVars, haloVars, eliVars, localVerification, canonIn, canonOut>>
    /\ UNCHANGED <<env, receiptJson, hmacResult, checks, files, exitCode, report>>
    /\ UNCHANGED <<rival, rivalResult, normalized>>

\* The master receipt as the object literal of createMasterReceipt builds it,
\* a JSON value with its members in the order of the literal.
MasterJson(master) ==
    JObj(<< <<<<"r", "e", "c", "e", "i", "p", "t", "_", "v", "e", "r", "s", "i", "o", "n">>, JStr(master.receipt_version)>>,
            <<<<"r", "e", "c", "e", "i", "p", "t", "_", "i", "d">>, JStr(master.receipt_id)>>,
            <<<<"c", "o", "n", "t", "e", "n", "t", "_", "h", "a", "s", "h">>, JStr(master.content_hash)>>,
            <<<<"s", "i", "g", "n", "a", "t", "u", "r", "e", "_", "s", "c", "h", "e", "m", "e">>, JStr(master.signature_scheme)>>,
            <<<<"s", "i", "g", "n", "a", "t", "u", "r", "e">>, JStr(master.signature)>>,
            <<<<"m", "e", "t", "a", "d", "a", "t", "a">>,
              JObj(<< <<<<"s", "o", "u", "r", "c", "e">>, JStr(master.metadata.source)>>,
                      <<<<"i", "n", "g", "e", "s", "t", "e", "d", "_", "a", "t">>, JStr(master.metadata.ingested_at)>>,
                      <<<<"s", "o", "u", "r", "c", "e", "_", "d", "i", "r">>, JStr(master.metadata.source_dir)>>,
                      <<<<"s", "o", "u", "r", "c", "e", "_", "r", "e", "c", "e", "i", "p", "t", "_", "f", "i", "l", "e">>, JStr(master.metadata.source_receipt_file)>> >>)>>,
            <<<<"v", "e", "r", "i", "f", "i", "c", "a", "t", "i", "o", "n">>,
              JObj(<< <<<<"d", "e", "r", "i", "v", "e", "d", "_", "s", "t", "a", "t", "u", "s">>, JStr(master.verification.derived_status)>>,
                      <<<<"v", "e", "r", "i", "f", "i", "e", "d", "_", "a", "t">>, JStr(master.verification.verified_at)>>,
                      <<<<"v", "a", "l", "e", "t", "_", "h", "m", "a", "c", "_", "s", "t", "r", "a", "t", "e", "g", "y">>, JStr(master.verification.valet_hmac_strategy)>>,
                      <<<<"c", "h", "e", "c", "k", "s">>,
                        JArr([i \in 1..Len(master.verification.checks) |->
                                 JStr(master.verification.checks[i])])>> >>)>> >>)

\* recomputeVerification(master, evidence, { publicKeyPem }) of the inspector,
\* on a master receipt and an evidence pack read from the files the bridge
\* wrote. The master receipt holds no signed_payload, so resolveSignedEnvelope
\* rebuilds the envelope from receipt_version, receipt_id, content_hash and
\* metadata. verifyEd25519 returns false when the key or the signature cannot
\* be decoded; pemToDer does not repair escaped line breaks.
recomputeVerification(master, evidence, publicKeyPem) ==
    LET pem == IF publicKeyPem.kind # "undefined" THEN publicKeyPem
               ELSE IF master.metadata.public_key.kind = "empty" THEN NoPem
               ELSE master.metadata.public_key
        payload == canonicalize(JObj(<< <<<<"r", "e", "c", "e", "i", "p", "t", "_", "v", "e", "r", "s", "i", "o", "n">>, JStr(master.receipt_version)>>,
                                        <<<<"r", "e", "c", "e", "i", "p", "t", "_", "i", "d">>, JStr(master.receipt_id)>>,
                                        <<<<"c", "o", "n", "t", "e", "n", "t", "_", "h", "a", "s", "h">>, JStr(master.content_hash)>>,
                                        <<<<"m", "e", "t", "a", "d", "a", "t", "a">>, Member(MasterJson(master), <<"m", "e", "t", "a", "d", "a", "t", "a">>)>> >>))
        decodeSignature(text) ==
            IF Len(text) % 2 = 0 /\ \A i \in 1..Len(text) : \E k \in 1..Len(HexDigits) : HexDigits[k] = ToLower(text[i])
            THEN FromHex(text)
            ELSE FromBase64(SelectSeq(text, LAMBDA ch : ch \notin WhiteSpace))
        key == IF pem.kind = "public" /\ ~pem.escaped THEN pem.id ELSE 0
        outcome(hashMatches, signatureValid) ==
            IF Len(master.signature) = 0 \/ pem.kind \in {"undefined", "empty"}
            THEN [hashMatches |-> hashMatches, signatureChecked |-> FALSE,
                  signatureValid |-> FALSE, isVerified |-> FALSE]
            ELSE [hashMatches |-> hashMatches, signatureChecked |-> TRUE,
                  signatureValid |-> signatureValid, isVerified |-> hashMatches /\ signatureValid]
    IN  CHOOSE result \in
            {outcome(Len(master.content_hash) > 0 /\ master.content_hash = recomputedHash,
                     key # 0 /\ signatureBytes = <<key>> \o Utf8Bytes(payload)) :
                recomputedHash \in {sha256Hex(canonicalize(evidence.transcript))},
                signatureBytes \in {decodeSignature(text) : text \in {Trim(master.signature)}}} : TRUE

\* The inspector is given the pair that verifyCheckpointOffline was last given,
\* and the same verify key.
RecomputeVerification ==
    /\ cpc \in {"ck-verified", "ck-reverified"}
    /\ localVerification' = recomputeVerification(handed.master_receipt, handed.evidence_pack,
                                                  ckKeys.verifyKeyPem)
    /\ cpc' = IF cpc = "ck-verified" THEN "ck-inspected" ELSE "ck-reinspected"
    /\ UNCHANGED <<ckInput, made, handed, ckKeys, ckResult>>
    /\ UNCHANGED <<loaderVars, haloVars, eliVars, canonIn, canonOut>>
    /\ UNCHANGED <<env, receiptJson, hmacResult, checks, files, exitCode, report>>
    /\ UNCHANGED <<rival, rivalResult, normalized>>

SpecCheckpoint ==
    InitCheckpoint /\ [][CreateMasterReceipt \/ AlterPair \/ VerifyCheckpointOffline
                             \/ RecomputeVerification]_vars

\* --------------------------------------------------- the no-plaintext check
\* const disallowedKeys; the first definition is a set that also holds a key
\* every master receipt has.
DisallowedWithMetadata ==
    {<<"t", "r", "a", "n", "s", "c", "r", "i", "p", "t">>, <<"m", "e", "s", "s", "a", "g", "e", "s">>, <<"p", "r", "o", "m", "p", "t">>, <<"c", "o", "m", "p", "l", "e", "t", "i", "o", "n">>, <<"r", "e", "s", "p", "o", "n", "s", "e">>,
     <<"o", "u", "t", "p", "u", "t", "_", "t", "e", "x", "t">>, <<"r", "a", "w", "_", "r", "e", "s", "p", "o", "n", "s", "e">>, <<"m", "e", "t", "a", "d", "a", "t", "a">>}
disallowedKeys ==
    {<<"t", "r", "a", "n", "s", "c", "r", "i", "p", "t">>, <<"m", "e", "s", "s", "a", "g", "e", "s">>, <<"p", "r", "o", "m", "p", "t">>, <<"c", "o", "m", "p", "l", "e", "t", "i", "o", "n">>, <<"r", "e", "s", "p", "o", "n", "s", "e">>,
     <<"o", "u", "t", "p", "u", "t", "_", "t", "e", "x", "t">>, <<"r", "a", "w", "_", "r", "e", "s", "p", "o", "n", "s", "e">>}

\* assertMasterHasNoPlaintext(masterReceipt): the stack is popped from its end;
\* the entries of an object are read in order, and the first disallowed key
\* ends the scan before later values are pushed.
assertMasterHasNoPlaintext(masterReceipt) ==
    LET RECURSIVE scan(_)
        scan(stack) ==
            IF stack = <<>> THEN [ok |-> TRUE, reason |-> <<"O", "K">>]
            ELSE LET current == stack[Len(stack)]
                     rest == SubSeq(stack, 1, Len(stack) - 1)
                     found == {i \in 1..Len(current.v) : current.v[i][1] \in disallowedKeys}
                 IN  IF current.t = "array" THEN scan(rest \o current.v)
                     ELSE IF current.t # "object" THEN scan(rest)
                     ELSE IF found # {}
                     THEN [ok |-> FALSE,
                           reason |-> <<"D", "i", "s", "a", "l", "l", "o", "w", "e", "d", " ", "p", "l", "a", "i", "n", "t", "e", "x", "t", " ", "k", "e", "y", " ", "f", "o", "u", "n", "d", " ", "i", "n", " ", "m", "a", "s", "t", "e", "r", " ", "r", "e", "c", "e", "i", "p", "t", ":", " ">>
                                          \o current.v[CHOOSE i \in found : \A j \in found : i <= j][1]]
                     ELSE scan(rest \o [i \in 1..Len(current.v) |-> current.v[i][2]])
    IN  scan(<<masterReceipt>>)

\* ------------------------------------------------- the upstream Valet HMAC
\* readValetSignature(receipt)
readValetSignature(valetReceipt) ==
    LET directSignature == asString(Member(valetReceipt, <<"s", "i", "g", "n", "a", "t", "u", "r", "e">>))
        directHmac == asString(Member(valetReceipt, <<"h", "m", "a", "c">>))
        receiptSignature == asString(Member(valetReceipt, <<"r", "e", "c", "e", "i", "p", "t", "_", "s", "i", "g", "n", "a", "t", "u", "r", "e">>))
        verification == asRecord(Member(valetReceipt, <<"v", "e", "r", "i", "f", "i", "c", "a", "t", "i", "o", "n">>))
        signatureType == asString(Member(valetReceipt, <<"s", "i", "g", "n", "a", "t", "u", "r", "e", "_", "t", "y", "p", "e">>))
        typeSaysHmac ==
            IF signatureType.t = "undefined" THEN TRUE
            ELSE IndexOf([i \in 1..Len(signatureType.v) |-> ToLower(signatureType.v[i])],
                         <<"h", "m", "a", "c">>, 0) # -1
    IN  Coalesce(directHmac,
        Coalesce(IF directSignature.t # "undefined" /\ typeSaysHmac THEN directSignature
                 ELSE JUndefined,
        Coalesce(receiptSignature,
        Coalesce(asString(Member(verification, <<"h", "m", "a", "c">>)),
                 asString(Member(verification, <<"s", "i", "g", "n", "a", "t", "u", "r", "e">>))))))

\* stripSignatureFields(value)
RECURSIVE stripSignatureFields(_)
stripSignatureFields(value) ==
    IF value.t = "array"
    THEN JArr([i \in 1..Len(value.v) |-> stripSignatureFields(value.v[i])])
    ELSE IF value.t # "object" THEN value
    ELSE LET kept == SelectSeq(value.v,
                               LAMBDA m : m[1] \notin {<<"s", "i", "g", "n", "a", "t", "u", "r", "e">>, <<"h", "m", "a", "c">>,
                                                       <<"r", "e", "c", "e", "i", "p", "t", "_", "s", "i", "g", "n", "a", "t", "u", "r", "e">>, <<"s", "i", "g", "n", "a", "t", "u", "r", "e", "_", "t", "y", "p", "e">>})
         IN  JObj([i \in 1..Len(kept) |-> <<kept[i][1], stripSignatureFields(kept[i][2])>>])

\* normalizeValetToTranscript(receipt)
normalizeValetToTranscript(valetReceipt) ==
    LET field(key) == Member(valetReceipt, key)
        inner(outer, key) == Member(asRecord(field(outer)), key)
        prompt == Coalesce(asString(field(<<"p", "r", "o", "m", "p", "t">>)),
                  Coalesce(asString(field(<<"i", "n", "p", "u", "t">>)),
                  Coalesce(asString(inner(<<"r", "e", "q", "u", "e", "s", "t">>, <<"p", "r", "o", "m", "p", "t">>)),
                           asString(inner(<<"r", "e", "q", "u", "e", "s", "t">>, <<"i", "n", "p", "u", "t">>)))))
        completion == Coalesce(asString(field(<<"c", "o", "m", "p", "l", "e", "t", "i", "o", "n">>)),
                      Coalesce(asString(field(<<"o", "u", "t", "p", "u", "t">>)),
                      Coalesce(asString(inner(<<"r", "e", "s", "p", "o", "n", "s", "e">>, <<"t", "e", "x", "t">>)),
                      Coalesce(asString(inner(<<"r", "e", "s", "p", "o", "n", "s", "e">>, <<"o", "u", "t", "p", "u", "t", "_", "t", "e", "x", "t">>)),
                               asString(inner(<<"r", "e", "s", "u", "l", "t">>, <<"t", "e", "x", "t">>))))))
        found == Coalesce(asMessageArray(field(<<"m", "e", "s", "s", "a", "g", "e", "s">>)),
                 Coalesce(asMessageArray(inner(<<"t", "r", "a", "n", "s", "c", "r", "i", "p", "t">>, <<"m", "e", "s", "s", "a", "g", "e", "s">>)),
                          asMessageArray(field(<<"c", "o", "n", "v", "e", "r", "s", "a", "t", "i", "o", "n">>))))
        message(role, content) ==
            IF content.t = "undefined" THEN <<>>
            ELSE <<JObj(<< <<<<"r", "o", "l", "e">>, JStr(role)>>, <<<<"c", "o", "n", "t", "e", "n", "t">>, content>> >>)>>
        messages == IF found.t # "undefined" /\ Len(found.v) > 0 THEN found
                    ELSE JArr(message(<<"u", "s", "e", "r">>, prompt) \o message(<<"a", "s", "s", "i", "s", "t", "a", "n", "t">>, completion))
        inputs == Coalesce(asRecord(field(<<"i", "n", "p", "u", "t", "s">>)),
                  Coalesce(asRecord(field(<<"r", "e", "q", "u", "e", "s", "t">>)),
                           asRecord(inner(<<"t", "r", "a", "n", "s", "c", "r", "i", "p", "t">>, <<"i", "n", "p", "u", "t", "s">>))))
    IN  JObj(<< <<<<"m", "e", "s", "s", "a", "g", "e", "s">>, messages>>,
                <<<<"m", "o", "d", "e", "l">>, Coalesce(asString(field(<<"m", "o", "d", "e", "l">>)),
                             Coalesce(asString(inner(<<"r", "e", "q", "u", "e", "s", "t">>, <<"m", "o", "d", "e", "l">>)),
                             Coalesce(asString(inner(<<"r", "e", "s", "p", "o", "n", "s", "e">>, <<"m", "o", "d", "e", "l">>)),
                                      JStr(<<"u", "n", "k", "n", "o", "w", "n">>))))>>,
                <<<<"c", "r", "e", "a", "t", "e", "d", "_", "a", "t">>, Coalesce(asString(field(<<"c", "r", "e", "a", "t", "e", "d", "_", "a", "t">>)),
                                  Coalesce(asString(field(<<"t", "i", "m", "e", "s", "t", "a", "m", "p">>)),
                                  Coalesce(asString(inner(<<"r", "e", "s", "p", "o", "n", "s", "e">>, <<"c", "r", "e", "a", "t", "e", "d", "_", "a", "t">>)),
                                           JStr(<<"u", "n", "k", "n", "o", "w", "n">>))))>> >>
             \o (IF inputs.t # "undefined" THEN << <<<<"i", "n", "p", "u", "t", "s">>, inputs>> >> ELSE <<>>))

\* createHmac("sha256", hmacKey).update(payload, "utf8").digest("hex"), the MAC
\* idealised as unforgeable: the key and the bytes it was computed over.
createHmacHex(hmacKey, payload) == ToHex(<<KeyTag(hmacKey)>> \o Utf8Bytes(payload))

\* const normalize = (s) => s.trim().toLowerCase(); the first definition is a
\* comparison of the strings as they are written.
AsWritten(s) == s
normalize(s) ==
    LET kept == {i \in 1..Len(s) : s[i] \notin WhiteSpace}
        first == CHOOSE i \in kept : \A j \in 1..(i - 1) : s[j] \in WhiteSpace
        last == CHOOSE i \in kept : \A j \in (i + 1)..Len(s) : s[j] \in WhiteSpace
    IN  IF kept = {} THEN <<>>
        ELSE [i \in 1..(last - first + 1) |-> ToLower(s[first + i - 1])]

\* verifyValetHmac(receipt, hmacKey)
verifyValetHmac(valetReceipt, hmacKey) ==
    LET extractedSignature == readValetSignature(valetReceipt)
        transcriptHashField ==
            Coalesce(asString(Member(valetReceipt, <<"t", "r", "a", "n", "s", "c", "r", "i", "p", "t", "_", "h", "a", "s", "h">>)),
            Coalesce(asString(Member(valetReceipt, <<"c", "o", "n", "t", "e", "n", "t", "_", "h", "a", "s", "h">>)),
                     asString(Member(asRecord(Member(valetReceipt, <<"v", "e", "r", "i", "f", "i", "c", "a", "t", "i", "o", "n">>)), <<"t", "r", "a", "n", "s", "c", "r", "i", "p", "t", "_", "h", "a", "s", "h">>))))
        candidates ==
            << [strategy |-> <<"c", "a", "n", "o", "n", "i", "c", "a", "l", "_", "t", "r", "a", "n", "s", "c", "r", "i", "p", "t">>,
                payload |-> canonicalJson(normalizeValetToTranscript(valetReceipt))],
               [strategy |-> <<"c", "a", "n", "o", "n", "i", "c", "a", "l", "_", "r", "e", "c", "e", "i", "p", "t", "_", "w", "i", "t", "h", "o", "u", "t", "_", "s", "i", "g", "n", "a", "t", "u", "r", "e", "s">>,
                payload |-> canonicalJson(stripSignatureFields(valetReceipt))] >>
            \o (IF transcriptHashField.t # "undefined"
                THEN <<[strategy |-> <<"t", "r", "a", "n", "s", "c", "r", "i", "p", "t", "_", "h", "a", "s", "h", "_", "f", "i", "e", "l", "d">>, payload |-> transcriptHashField.v]>>
                ELSE <<>>)
        matching == {i \in 1..Len(candidates) :
                        normalize(createHmacHex(hmacKey, candidates[i].payload))
                            = normalize(extractedSignature.v)}
    IN  IF extractedSignature.t = "undefined"
        THEN [ok |-> FALSE, strategy |-> <<"n", "o", "n", "e">>,
              reason |-> <<"N", "o", " ", "V", "a", "l", "e", "t", " ", "H", "M", "A", "C", " ", "s", "i", "g", "n", "a", "t", "u", "r", "e", " ", "f", "i", "e", "l", "d", " ", "f", "o", "u", "n", "d", ".">>]
        ELSE IF matching # {}
        THEN [ok |-> TRUE, strategy |-> candidates[CHOOSE i \in matching : \A j \in matching : i <= j].strategy,
              reason |-> <<>>]
        ELSE [ok |-> FALSE, strategy |-> <<"n", "o", "n", "e">>,
              reason |-> <<"N", "o", " ", "H", "M", "A", "C", " ", "v", "e", "r", "i", "f", "i", "c", "a", "t", "i", "o", "n", " ", "s", "t", "r", "a", "t", "e", "g", "y", " ", "m", "a", "t", "c", "h", "e", "d", " ", "t", "h", "i", "s", " ", "r", "e", "c", "e", "i", "p", "t", " ", "s", "i", "g", "n", "a", "t", "u", "r", "e", ".">>]

\* ------------------------------------------------------ a run of the bridge
\* Receipts found in the input directory: prompt, completion, model and
\* created_at, with or without a transcript_hash, and a signature that is the
\* HMAC under one of two keys of the payload of one strategy. The signature is
\* written as computed, in upper case, between white space, or with one
\* character replaced; it is placed in hmac, in signature with or without a
\* signature_type, in receipt_signature, in verification.hmac, or left out.
ValetReceipts ==
    LET base == << <<<<"p", "r", "o", "m", "p", "t">>, JStr(<<"a">>)>>, <<<<"c", "o", "m", "p", "l", "e", "t", "i", "o", "n">>, JStr(<<"S", "o", ".">>)>>,
                   <<<<"m", "o", "d", "e", "l">>, JStr(<<"m">>)>>, <<<<"c", "r", "e", "a", "t", "e", "d", "_", "a", "t">>, JStr(<<"t">>)>> >>
        ownCanonical == canonicalJson(normalizeValetToTranscript(JObj(base)))
        hashFields == {<<>>, << <<<<"t", "r", "a", "n", "s", "c", "r", "i", "p", "t", "_", "h", "a", "s", "h">>, JStr(<<"h", "1">>)>> >>,
                       << <<<<"t", "r", "a", "n", "s", "c", "r", "i", "p", "t", "_", "h", "a", "s", "h">>, JStr(ownCanonical)>> >>}
        payload(strategy, body) ==
            IF strategy = 1 THEN canonicalJson(normalizeValetToTranscript(JObj(body)))
            ELSE IF strategy = 2 THEN canonicalJson(stripSignatureFields(JObj(body)))
            ELSE <<"h", "1">>
        written(sig) == {sig, ToUpperHex(sig), <<" ">> \o sig \o <<"\n">>, flipHexChar(sig)}
        placed(body, where, sig) ==
            IF where = "hmac" THEN JObj(body \o << <<<<"h", "m", "a", "c">>, JStr(sig)>> >>)
            ELSE IF where = "signature" THEN JObj(body \o << <<<<"s", "i", "g", "n", "a", "t", "u", "r", "e">>, JStr(sig)>> >>)
            ELSE IF where = "signature, hmac type"
            THEN JObj(body \o << <<<<"s", "i", "g", "n", "a", "t", "u", "r", "e">>, JStr(sig)>>, <<<<"s", "i", "g", "n", "a", "t", "u", "r", "e", "_", "t", "y", "p", "e">>, JStr(<<"H", "M", "A", "C", "-", "S", "H", "A", "2", "5", "6">>)>> >>)
            ELSE IF where = "signature, other type"
            THEN JObj(body \o << <<<<"s", "i", "g", "n", "a", "t", "u", "r", "e">>, JStr(sig)>>, <<<<"s", "i", "g", "n", "a", "t", "u", "r", "e", "_", "t", "y", "p", "e">>, JStr(<<"e", "d", "2", "5", "5", "1", "9">>)>> >>)
            ELSE IF where = "receipt_signature"
            THEN JObj(body \o << <<<<"r", "e", "c", "e", "i", "p", "t", "_", "s", "i", "g", "n", "a", "t", "u", "r", "e">>, JStr(sig)>> >>)
            ELSE IF where = "verification.hmac"
            THEN JObj(body \o << <<<<"v", "e", "r", "i", "f", "i", "c", "a", "t", "i", "o", "n">>, JObj(<< <<<<"h", "m", "a", "c">>, JStr(sig)>> >>)>> >>)
            ELSE JObj(body)
    IN  {placed(base, where, createHmacHex("k1", payload(1, base))) :
            where \in {"hmac", "signature", "signature, hmac type", "signature, other type",
                       "receipt_signature", "verification.hmac", "none"}}
        \cup UNION {{placed(base \o hash, "hmac", sig) :
                        sig \in written(createHmacHex("k1", payload(strategy, base \o hash)))} :
                    hash \in hashFields, strategy \in 1..3}
        \cup {placed(base, "hmac", createHmacHex("k2", payload(1, base)))}

\* A run starts with the receipt read from the input directory and with
\* process.env: VALET_RECEIPT_HMAC_KEY unset, empty or one of two keys;
\* RECEIPT_SIGNING_KEY and RECEIPT_VERIFY_KEY as PEM texts.
InitIngest ==
    /\ HaloIdle
    /\ LoaderIdle
    /\ EliIdle
    /\ cpc = "in-start"
    /\ canonIn = <<>> /\ canonOut = <<>>
    /\ ckInput = <<>> /\ made = <<>> /\ handed = <<>> /\ ckKeys = <<>> /\ ckResult = <<>>
    /\ env \in
        {[hmacKey |-> h, signingKey |-> k[1], verifyKey |-> k[2]] :
            h \in {Undefined, "", "k1", "k2"},
            k \in {<<PemKey("private", 1), NoPem>>, <<PemKey("private", 1), PemKey("public", 1)>>,
                   <<PemKey("private", 1), PemKey("public", 2)>>,
                   <<PemKey("private", 1), PemKey("malformed", 0)>>,
                   <<NoPem, NoPem>>, <<PemKey("malformed", 0), NoPem>>}}
    /\ receiptJson \in ValetReceipts
    /\ hmacResult = <<>>
    /\ checks = <<>>
    /\ files = {}
    /\ exitCode = -1
    /\ report = <<>>
    /\ rival = <<>> /\ rivalResult = <<>> /\ normalized = <<>> /\ localVerification = <<>>

\* if (!hmacResult.ok || hmacResult.strategy === "none"); the first definition
\* is a run that never takes the branch.
NeverFailed(result) == FALSE
HmacFailed(result) == ~result.ok \/ result.strategy = <<"n", "o", "n", "e">>

\* runIngestValet, the HMAC verification phase: without a key the run returns
\* false; the check is recorded, and a failed check returns false.
VerifyValetHmac ==
    /\ cpc = "in-start"
    /\ IF env.hmacKey \in {Undefined, ""}
       THEN /\ cpc' = "in-exit"
            /\ exitCode' = 1
            /\ UNCHANGED <<hmacResult, checks>>
       ELSE LET result == verifyValetHmac(receiptJson, env.hmacKey)
            IN  /\ hmacResult' = result
                /\ checks' = Append(checks, [name |-> "valet_hmac_verification",
                                             passed |-> result.ok])
                /\ IF HmacFailed(result)
                   THEN cpc' = "in-exit" /\ exitCode' = 1
                   ELSE cpc' = "in-authenticated" /\ UNCHANGED exitCode
    /\ UNCHANGED <<env, receiptJson, files, report, rival, rivalResult, normalized>>
    /\ UNCHANGED <<loaderVars, haloVars, eliVars, localVerification, canonIn, canonOut, ckInput, made, handed, ckKeys, ckResult>>

\* runIngestValet, the checkpoint generation phase: without a signing key the
\* run returns false; the output directory is made; createMasterReceipt
\* returns the pair or throws, which main turns into exit code 1; the checks
\* on the pair are recorded. What the leak scan finds in the master receipt is
\* not determined here.
GenerateCheckpoint ==
    /\ cpc = "in-authenticated"
    /\ IF env.signingKey.kind \in {"undefined", "empty"}
       THEN /\ cpc' = "in-exit"
            /\ exitCode' = 1
            /\ UNCHANGED <<made, checks, files>>
       ELSE \E receiptId \in UUIDs, now \in Timestamps, masterLeakScan \in BOOLEAN :
               \E created \in
                       {createMasterReceipt([transcript |-> normalizeValetToTranscript(receiptJson),
                                            sourceDir |-> <<"/", "d">>,
                                            sourceReceiptFile |-> <<"r", "e", "c", "e", "i", "p", "t", ".", "j", "s", "o", "n">>,
                                            sourceFiles |-> <<[file |-> <<"r", "e", "c", "e", "i", "p", "t", ".", "j", "s", "o", "n">>,
                                                               sha256 |-> sha256Hex(<<"r">>)]>>,
                                            matchedHmacStrategy |-> hmacResult.strategy,
                                            signingKeyPem |-> env.signingKey],
                                           receiptId, now)} :
                   /\ files' = files \cup {"halo_checkpoint"}
                   /\ IF created.threw
                      THEN /\ cpc' = "in-exit"
                           /\ exitCode' = 1
                           /\ UNCHANGED <<made, checks>>
                      ELSE /\ cpc' = "in-made"
                           /\ made' = [master_receipt |-> created.master_receipt,
                                       evidence_pack |-> created.evidence_pack]
                           /\ checks' = checks \o
                                  <<[name |-> "content_hash_computed", passed |-> TRUE],
                                    [name |-> "ed25519_checkpoint_generated", passed |-> TRUE],
                                    [name |-> "master_receipt_plaintext_check",
                                     passed |-> assertMasterHasNoPlaintext(MasterJson(created.master_receipt)).ok],
                                    [name |-> "master_receipt_leak_scan", passed |-> masterLeakScan],
                                    [name |-> "evidence_pack_leak_scan", passed |-> TRUE]>>
                           /\ UNCHANGED exitCode
    /\ UNCHANGED <<env, receiptJson, hmacResult, report, rival, rivalResult, normalized>>
    /\ UNCHANGED <<loaderVars, haloVars, eliVars, localVerification, canonIn, canonOut, ckInput, handed, ckKeys, ckResult>>

\* runIngestValet, offline verification and the two acceptance checks: the
\* pair as made, the pair with __tampered: true in the transcript, the pair
\* with the first hex character of the master's content_hash flipped. A call
\* that throws ends the run with exit code 1.
VerifyOffline ==
    /\ cpc = "in-made"
    /\ LET call(master, pack) ==
               verifyCheckpointOffline([masterReceipt |-> master, evidencePack |-> pack,
                                        verifyKeyPem |-> env.verifyKey,
                                        signingKeyPem |-> env.signingKey])
           tamperedEvidence ==
               [made.evidence_pack EXCEPT !.transcript =
                    JObj(Append(@.v, <<<<"_", "_", "t", "a", "m", "p", "e", "r", "e", "d">>, JBool(<<"t", "r", "u", "e">>)>>))]
           tamperedMaster ==
               [made.master_receipt EXCEPT !.content_hash = flipHexChar(@)]
       IN  \E results \in {<<call(made.master_receipt, made.evidence_pack),
                               call(made.master_receipt, tamperedEvidence),
                               call(tamperedMaster, made.evidence_pack)>>} :
           IF \E i \in 1..3 : results[i].threw
           THEN /\ cpc' = "in-exit"
                /\ exitCode' = 1
                /\ UNCHANGED <<ckResult, checks>>
           ELSE /\ cpc' = "in-verified"
                /\ ckResult' = results
                /\ checks' = checks \o
                       <<[name |-> "offline_verify", passed |-> results[1].ok],
                         [name |-> "acceptance_tampered_evidence_fails", passed |-> ~results[2].ok],
                         [name |-> "acceptance_tampered_master_fails", passed |-> ~results[3].ok]>>
                /\ UNCHANGED exitCode
    /\ UNCHANGED <<env, receiptJson, hmacResult, files, report, rival, rivalResult, normalized>>
    /\ UNCHANGED <<loaderVars, haloVars, eliVars, localVerification, canonIn, canonOut, ckInput, made, handed, ckKeys>>

\* const overallPass = input.checks.every((check) => check.passed); the first
\* definition looks at the first check only.
FirstCheckPassed(all) == all[1].passed
overallPass(all) == \A i \in 1..Len(all) : all[i].passed

\* runIngestValet to its end: the two files are written; the ledger
\* submission is skipped, succeeds or fails, and is recorded as a check when
\* it was attempted; finalizeRun writes the report and returns overallPass,
\* and main exits with 0 when that is true.
WriteOutputs ==
    /\ cpc = "in-verified"
    /\ \E submission \in {"skipped", "ok", "failed"} :
          LET all == checks \o (IF submission = "skipped" THEN <<>>
                                ELSE <<[name |-> "ledger_submission",
                                        passed |-> submission = "ok"]>>)
          IN  /\ checks' = all
              /\ files' = files \cup {"master_receipt.json", "evidence_pack.json",
                                      "protocol_report.json"}
                                \cup (IF submission = "skipped" THEN {}
                                      ELSE {"ledger_submission.json"})
              /\ report' = [status |-> IF overallPass(all) THEN "PASS" ELSE "FAIL",
                            checks |-> all,
                            submission |-> submission,
                            returned |-> overallPass(all)]
              /\ exitCode' = IF overallPass(all) THEN 0 ELSE 1
    /\ cpc' = "in-exit"
    /\ UNCHANGED <<env, receiptJson, hmacResult, rival, rivalResult, normalized>>
    /\ UNCHANGED <<loaderVars, haloVars, eliVars, localVerification, canonIn, canonOut, ckInput, made, handed, ckKeys, ckResult>>

SpecIngest ==
    InitIngest /\ [][VerifyValetHmac \/ GenerateCheckpoint \/ VerifyOffline \/ WriteOutputs]_vars

\* ---------------------------------------------------- receipts of any shape
\* A receipt of tests/unit/ingestValet.test.ts, or a JSON object whose
\* messages, transcript, conversation, prompt, completion, model and time are
\* each absent, well formed, or of another type than the one read. The rival
\* carries the same signature fields and another prompt or completion.
InitReceipts ==
    LET m(key, value) == << <<key, value>> >>
        said(roleKey, role, contentKey, content) == JObj(m(roleKey, JStr(role)) \o m(contentKey, JStr(content)))
        messagesOpts == {<<>>,
            m(<<"m", "e", "s", "s", "a", "g", "e", "s">>, JArr(<<said(<<"r", "o", "l", "e">>, <<"u", "s", "e", "r">>, <<"c", "o", "n", "t", "e", "n", "t">>, <<"a">>), said(<<"r", "o", "l", "e">>, <<"a", "s", "s", "i", "s", "t", "a", "n", "t">>, <<"c", "o", "n", "t", "e", "n", "t">>, <<"S", "o", ".">>)>>)),
            m(<<"m", "e", "s", "s", "a", "g", "e", "s">>, JArr(<<JNum(<<"7">>), JObj(m(<<"r", "o", "l", "e">>, JStr(<<"u", "s", "e", "r">>))), said(<<"s", "p", "e", "a", "k", "e", "r">>, <<"b", "o", "t">>, <<"t", "e", "x", "t">>, <<"b">>)>>)),
            m(<<"m", "e", "s", "s", "a", "g", "e", "s">>, JArr(<<>>)),
            m(<<"m", "e", "s", "s", "a", "g", "e", "s">>, JArr(<<JObj(m(<<"r", "o", "l", "e">>, JStr(<<"u", "s", "e", "r">>))), JNull>>)),
            m(<<"m", "e", "s", "s", "a", "g", "e", "s">>, JStr(<<"x">>))}
        transcriptOpts == {<<>>,
            m(<<"t", "r", "a", "n", "s", "c", "r", "i", "p", "t">>, JObj(m(<<"m", "e", "s", "s", "a", "g", "e", "s">>, JArr(<<said(<<"a", "u", "t", "h", "o", "r">>, <<"u">>, <<"m", "e", "s", "s", "a", "g", "e">>, <<"c">>)>>))
                                   \o m(<<"i", "n", "p", "u", "t", "s">>, JObj(m(<<"q">>, JStr(<<"1">>)))))),
            m(<<"t", "r", "a", "n", "s", "c", "r", "i", "p", "t">>, JArr(<<said(<<"r", "o", "l", "e">>, <<"u", "s", "e", "r">>, <<"c", "o", "n", "t", "e", "n", "t">>, <<"e">>)>>))}
        conversationOpts == {<<>>, m(<<"c", "o", "n", "v", "e", "r", "s", "a", "t", "i", "o", "n">>, JArr(<<JObj(m(<<"c", "o", "n", "t", "e", "n", "t">>, JStr(<<"d">>)))>>))}
        promptOpts == {<<>>, m(<<"p", "r", "o", "m", "p", "t">>, JStr(<<"p">>)),
            m(<<"p", "r", "o", "m", "p", "t">>, JStr(<<>>)) \o m(<<"i", "n", "p", "u", "t">>, JStr(<<"i">>)),
            m(<<"r", "e", "q", "u", "e", "s", "t">>, JObj(m(<<"i", "n", "p", "u", "t">>, JStr(<<"r", "i">>)) \o m(<<"m", "o", "d", "e", "l">>, JStr(<<"r", "m">>))))}
        completionOpts == {<<>>, m(<<"c", "o", "m", "p", "l", "e", "t", "i", "o", "n">>, JStr(<<"S", "o", ".">>)),
            m(<<"r", "e", "s", "p", "o", "n", "s", "e">>, JObj(m(<<"o", "u", "t", "p", "u", "t", "_", "t", "e", "x", "t">>, JStr(<<"r", "o">>)) \o m(<<"m", "o", "d", "e", "l">>, JStr(<<"p", "m">>))
                                 \o m(<<"c", "r", "e", "a", "t", "e", "d", "_", "a", "t">>, JStr(<<"p", "c">>)))),
            m(<<"r", "e", "s", "u", "l", "t">>, JObj(m(<<"t", "e", "x", "t">>, JStr(<<"r", "t">>))))}
        modelOpts == {<<>>, m(<<"m", "o", "d", "e", "l">>, JStr(<<"g", "p", "t", "-", "x">>)), m(<<"m", "o", "d", "e", "l">>, JNum(<<"5">>))}
        timeOpts == {<<>>, m(<<"c", "r", "e", "a", "t", "e", "d", "_", "a", "t">>, JNull) \o m(<<"t", "i", "m", "e", "s", "t", "a", "m", "p">>, JStr(<<"t", "s">>))}
        shapes == {JObj(a \o b \o c \o d \o e \o f \o g) :
                      a \in messagesOpts, b \in transcriptOpts, c \in conversationOpts, d \in promptOpts,
                      e \in completionOpts, f \in modelOpts, g \in timeOpts}
        with(r, key, value) == JObj([i \in 1..Len(r.v) |-> IF r.v[i][1] = key THEN <<key, value>> ELSE r.v[i]])
    IN  /\ HaloIdle
        /\ LoaderIdle
        /\ EliIdle
        /\ cpc = "rc-start"
        /\ canonIn = <<>> /\ canonOut = <<>>
        /\ ckInput = <<>> /\ made = <<>> /\ handed = <<>> /\ ckKeys = <<>> /\ ckResult = <<>>
        /\ env \in {[hmacKey |-> h, signingKey |-> NoPem, verifyKey |-> NoPem] : h \in {"k1", "k2"}}
        /\ receiptJson \in ValetReceipts \cup shapes
        /\ rival \in {with(receiptJson, <<"c", "o", "m", "p", "l", "e", "t", "i", "o", "n">>, JStr(<<"N", "o", ".">>)), with(receiptJson, <<"p", "r", "o", "m", "p", "t">>, JStr(<<"b">>))}
        /\ hmacResult = <<>> /\ rivalResult = <<>> /\ normalized = <<>> /\ localVerification = <<>>
        /\ checks = <<>>
        /\ files = {} /\ exitCode = -1 /\ report = <<>>

\* normalizeValetToTranscript(receipt), for both receipts
NormalizeReceipts ==
    /\ cpc = "rc-start"
    /\ cpc' = "rc-normalized"
    /\ normalized' = <<normalizeValetToTranscript(receiptJson), normalizeValetToTranscript(rival)>>
    /\ UNCHANGED <<env, receiptJson, rival, hmacResult, rivalResult, checks, files, exitCode, report>>
    /\ UNCHANGED <<loaderVars, haloVars, eliVars, localVerification, canonIn, canonOut, ckInput, made, handed, ckKeys, ckResult>>

\* verifyValetHmac(receipt, hmacKey), for both receipts under one key
VerifyReceipts ==
    /\ cpc = "rc-normalized"
    /\ cpc' = "rc-verified"
    /\ hmacResult' = verifyValetHmac(receiptJson, env.hmacKey)
    /\ rivalResult' = verifyValetHmac(rival, env.hmacKey)
    /\ UNCHANGED <<env, receiptJson, rival, normalized, checks, files, exitCode, report>>
    /\ UNCHANGED <<loaderVars, haloVars, eliVars, localVerification, canonIn, canonOut, ckInput, made, handed, ckKeys, ckResult>>

SpecReceipts == InitReceipts /\ [][NormalizeReceipts \/ VerifyReceipts]_vars

\* --------------------------------------------- the halo-receipts contract
MaxCalls == 3
MaxResets == 1

\* Before any call: the cache is null; the package is not installed, exports
\* no HALO_RECEIPTS_CONTRACT object, exports one without all four required
\* functions, or exports a complete one.
InitLoader ==
    /\ HaloIdle
    /\ EliIdle
    /\ CliIdle
    /\ cached = 0
    /\ installed \in {"not installed", "no contract", "incomplete", "complete"}
    /\ calls = [c \in 1..MaxCalls |->
                   [pc |-> "idle", result |-> 0, imported |-> FALSE, began |-> 0, ended |-> 0]]
    /\ objects = 0
    /\ clock = 0
    /\ resetTimes = {}

\* loadHaloReceiptsContract, up to its first await: the cached contract is
\* returned at once; otherwise the call awaits import("halo-receipts").
CallLoad ==
    \E c \in 1..MaxCalls :
        /\ calls[c].pc = "idle"
        /\ clock' = clock + 1
        /\ calls' = [calls EXCEPT ![c] =
                        IF cached # 0
                        THEN [pc |-> "returned", result |-> cached, imported |-> FALSE,
                              began |-> clock', ended |-> clock']
                        ELSE [pc |-> "importing", result |-> 0, imported |-> TRUE,
                              began |-> clock', ended |-> 0]]
        /\ UNCHANGED <<cached, installed, objects, resetTimes>>
        /\ UNCHANGED <<haloVars, eliVars, cliVars>>

\* loadHaloReceiptsContract, after the await: a package that is missing or
\* fails validation makes the call throw; otherwise a new contract object is
\* built, stored in cached and returned.
ResumeLoad ==
    \E c \in 1..MaxCalls :
        /\ calls[c].pc = "importing"
        /\ clock' = clock + 1
        /\ IF installed # "complete"
           THEN /\ calls' = [calls EXCEPT ![c].pc = "threw", ![c].ended = clock']
                /\ UNCHANGED <<cached, objects>>
           ELSE /\ objects' = objects + 1
                /\ cached' = objects'
                /\ calls' = [calls EXCEPT ![c].pc = "returned", ![c].result = objects',
                                          ![c].ended = clock']
        /\ UNCHANGED <<installed, resetTimes>>
        /\ UNCHANGED <<haloVars, eliVars, cliVars>>

\* _resetContractCacheForTest
resetContractCacheForTest ==
    /\ Cardinality(resetTimes) < MaxResets
    /\ clock' = clock + 1
    /\ cached' = 0
    /\ resetTimes' = resetTimes \cup {clock'}
    /\ UNCHANGED <<installed, calls, objects>>
    /\ UNCHANGED <<haloVars, eliVars, cliVars>>

SpecLoader == InitLoader /\ [][CallLoad \/ ResumeLoad \/ resetContractCacheForTest]_vars

\* ------------------------------------------------------------ bridge claims
\* Two JSON values are the same value: objects are compared member by member
\* whatever the order of their keys, arrays item by item.
RECURSIVE JsonEq(_, _)
JsonEq(x, y) ==
    /\ x.t = y.t
    /\ IF x.t = "array"
       THEN Len(x.v) = Len(y.v) /\ \A i \in 1..Len(x.v) : JsonEq(x.v[i], y.v[i])
       ELSE IF x.t = "object"
       THEN /\ {x.v[i][1] : i \in 1..Len(x.v)} = {y.v[i][1] : i \in 1..Len(y.v)}
            /\ \A i \in 1..Len(x.v) : JsonEq(x.v[i][2], Member(y, x.v[i][1]))
       ELSE x.v = y.v

\* C12: canonicalJson and canonicalize return the same string for every value;
\* for two values that differ only in the order of object keys, at any depth,
\* they return one string; and for an array and the same items in another
\* order they return different strings unless the items that changed places
\* are the same value.
C12_CanonicalOrder ==
    cpc = "canon-both" =>
        LET a == canonIn[1]
            b == canonIn[2]
        IN  /\ canonOut[1] = canonOut[3] /\ canonOut[2] = canonOut[4]
            /\ JsonEq(a, b) => canonOut[1] = canonOut[2] /\ canonOut[3] = canonOut[4]
            /\ (a.t = "array" /\ b.t = "array" /\ b.v \in Reordered(a.v)
                  /\ \E i \in 1..Len(a.v) : ~JsonEq(a.v[i], b.v[i]))
                 => canonOut[1] # canonOut[2] /\ canonOut[3] # canonOut[4]

\* The unit test's object with its keys inserted in another order at both
\* depths: both canonicalizers return {"a":{"b":1,"c":2},"z":1} for it.
C12_Witness ==
    /\ cpc = "canon-both"
    /\ canonIn[1] = StableOrderValue
    /\ canonIn[2].v[1][1] = <<"a">> /\ canonIn[2].v[1][2].v[1][1] = <<"b">>
    /\ canonOut[2] = <<"{", "\"", "a", "\"", ":", "{", "\"", "b", "\"", ":", "1", ",",
                       "\"", "c", "\"", ":", "2", "}", ",", "\"", "z", "\"", ":", "1", "}">>
    /\ canonOut[4] = canonOut[2]

\* C13: the master receipt and the evidence pack createMasterReceipt returns
\* carry the same content_hash, which is the SHA-256 of the canonical JSON of
\* the pack's transcript, and the same receipt_id.
C13_HashAgreement ==
    cpc = "ck-made" =>
        /\ made.master_receipt.content_hash = made.evidence_pack.content_hash
        /\ made.evidence_pack.content_hash
               = sha256Hex(canonicalJson(made.evidence_pack.transcript))
        /\ made.master_receipt.receipt_id = made.evidence_pack.receipt_id

\* A pair made from a transcript whose keys were not inserted in sorted order.
C13_Witness ==
    /\ cpc = "ck-made"
    /\ ObjectKeys(made.evidence_pack.transcript) # SortStrings(ObjectKeys(made.evidence_pack.transcript))
    /\ Len(made.master_receipt.content_hash) > 0

\* C14: on the pair as createMasterReceipt returned it, verifyCheckpointOffline
\* returns ok=true when it is given the public key of the pair that signed, or
\* no verify key and the signing key itself, whether the PEM text has its line
\* breaks or the two characters \n.
C14_RoundTrip ==
    (cpc = "ck-verified" /\ handed = made) =>
        LET signer == ckInput.signingKeyPem.id
            matchingPublic == ckKeys.verifyKeyPem.kind = "public" /\ ckKeys.verifyKeyPem.id = signer
            onlySigning == /\ ckKeys.verifyKeyPem = NoPem
                           /\ ckKeys.signingKeyPem.kind = "private"
                           /\ ckKeys.signingKeyPem.id = signer
        IN  (matchingPublic \/ onlySigning) => ~ckResult[1].threw /\ ckResult[1].ok

\* A receipt was verified with no verify key and with its signing key, the PEM
\* text in escaped form.
C14_Witness ==
    /\ cpc = "ck-verified"
    /\ ckKeys.verifyKeyPem = NoPem
    /\ ckKeys.signingKeyPem.kind = "private"
    /\ ckKeys.signingKeyPem.id = ckInput.signingKeyPem.id
    /\ ckKeys.signingKeyPem.escaped
    /\ ckResult[1].ok

\* The keys of a JSON value, at any depth.
RECURSIVE KeysAtAnyDepth(_)
KeysAtAnyDepth(value) ==
    IF value.t = "array"
    THEN UNION {KeysAtAnyDepth(value.v[i]) : i \in 1..Len(value.v)}
    ELSE IF value.t = "object"
    THEN {value.v[i][1] : i \in 1..Len(value.v)}
             \cup UNION {KeysAtAnyDepth(value.v[i][2]) : i \in 1..Len(value.v)}
    ELSE {}

\* C15: the master receipt createMasterReceipt returns has none of the keys
\* transcript, messages, prompt, completion, response, output_text,
\* raw_response at any depth, and the no-plaintext check passes on it; the
\* text JSON.stringify gives for it contains "transcript", with the quotes,
\* only where the serialised source_dir, source_receipt_file or
\* valet_hmac_strategy contains it.
C15_NoPlaintext ==
    cpc = "ck-made" =>
        LET master == MasterJson(made.master_receipt)
            quoted == <<"\"", "t", "r", "a", "n", "s", "c", "r", "i", "p", "t", "\"">>
            has(text) == IndexOf(text, quoted, 0) # -1
        IN  /\ KeysAtAnyDepth(master)
                   \cap {<<"t", "r", "a", "n", "s", "c", "r", "i", "p", "t">>, <<"m", "e", "s", "s", "a", "g", "e", "s">>, <<"p", "r", "o", "m", "p", "t">>, <<"c", "o", "m", "p", "l", "e", "t", "i", "o", "n">>,
                         <<"r", "e", "s", "p", "o", "n", "s", "e">>, <<"o", "u", "t", "p", "u", "t", "_", "t", "e", "x", "t">>, <<"r", "a", "w", "_", "r", "e", "s", "p", "o", "n", "s", "e">>} = {}
            /\ assertMasterHasNoPlaintext(master) = [ok |-> TRUE, reason |-> <<"O", "K">>]
            /\ has(JsonStringify(master)) =>
                   \/ has(Quote(made.master_receipt.metadata.source_dir))
                   \/ has(Quote(made.master_receipt.metadata.source_receipt_file))
                   \/ has(Quote(made.master_receipt.verification.valet_hmac_strategy))

\* A master receipt made from a transcript with messages passed the check.
C15_Witness ==
    /\ cpc = "ck-made"
    /\ Member(made.evidence_pack.transcript, <<"m", "e", "s", "s", "a", "g", "e", "s">>).t = "array"
    /\ made.master_receipt.metadata.source_dir = <<"/", "d">>
    /\ assertMasterHasNoPlaintext(MasterJson(made.master_receipt)).ok

\* C15 as stated: the serialised master receipt never contains "transcript".
C15_AsStated ==
    cpc = "ck-made" =>
        /\ assertMasterHasNoPlaintext(MasterJson(made.master_receipt)).ok
        /\ IndexOf(JsonStringify(MasterJson(made.master_receipt)), <<"\"", "t", "r", "a", "n", "s", "c", "r", "i", "p", "t", "\"">>, 0) = -1

\* C16: when verifyCheckpointOffline returned ok=true on a pair, it returns
\* ok=false, with the same keys, (a) on the pair with an evidence transcript
\* of another canonical form and (b) on the pair with one hex character of
\* master_receipt.content_hash replaced.
C16_TamperDetected ==
    (cpc = "ck-reverified" /\ ckResult[1].ok) =>
        LET before == made.master_receipt.content_hash
            after == handed.master_receipt.content_hash
            transcriptChanged ==
                canonicalJson(handed.evidence_pack.transcript)
                    # canonicalJson(made.evidence_pack.transcript)
            oneHexReplaced ==
                /\ Len(after) = Len(before)
                /\ Cardinality({i \in 1..Len(before) : after[i] # before[i]}) = 1
        IN  (transcriptChanged \/ oneHexReplaced)
                => ~ckResult[2].threw /\ ~ckResult[2].ok

\* A transcript that differs from the signed one by a lone surrogate in place
\* of U+FFFD was refused with the reason of the first hash check.
C16_Witness ==
    /\ cpc = "ck-reverified"
    /\ ckResult[1].ok
    /\ handed.master_receipt = made.master_receipt
    /\ \E i \in 1..Len(handed.evidence_pack.transcript.v) :
          /\ handed.evidence_pack.transcript.v[i][1] = <<"m", "e", "s", "s", "a", "g", "e", "s">>
          /\ Member(handed.evidence_pack.transcript.v[i][2].v[1], <<"c", "o", "n", "t", "e", "n", "t">>).v = <<uD800>>
    /\ Member(Member(made.evidence_pack.transcript, <<"m", "e", "s", "s", "a", "g", "e", "s">>).v[1], <<"c", "o", "n", "t", "e", "n", "t">>).v = <<uFFFD>>
    /\ ckResult[2] = [threw |-> FALSE, ok |-> FALSE,
                      reason |-> "content_hash mismatch between master receipt and evidence transcript"]

\* C17: when verifyCheckpointOffline returned ok=true on a pair, it returns
\* ok=false, with the same keys, on the same master receipt with an evidence
\* pack of which any field was altered.
C17_EvidencePackBound ==
    (cpc = "ck-reverified" /\ ckResult[1].ok
        /\ handed.master_receipt = made.master_receipt
        /\ handed.evidence_pack # made.evidence_pack)
            => ~ckResult[2].ok

\* C18: verifyCheckpointOffline never throws: every call returns ok=true, or
\* ok=false with one of the four named reasons.
C18_NeverThrows ==
    \A i \in 1..Len(ckResult) :
        /\ ~ckResult[i].threw
        /\ \/ ckResult[i].ok
           \/ ckResult[i].reason \in
                  {"content_hash mismatch between master receipt and evidence transcript",
                   "evidence_pack.content_hash mismatch with master receipt",
                   "missing verify key (RECEIPT_VERIFY_KEY) for Ed25519 verification",
                   "ed25519 signature verification failed"}

\* A string without the white space at its two ends, in lower case.
RECURSIVE TrimmedLower(_)
TrimmedLower(s) ==
    IF s = <<>> THEN <<>>
    ELSE IF Head(s) \in WhiteSpace THEN TrimmedLower(Tail(s))
    ELSE IF s[Len(s)] \in WhiteSpace THEN TrimmedLower(SubSeq(s, 1, Len(s) - 1))
    ELSE [i \in 1..Len(s) |-> ToLower(s[i])]

\* C19: verifyValetHmac reports the first of canonical_transcript,
\* canonical_receipt_without_signatures and transcript_hash_field whose
\* HMAC-SHA256 hex digest equals the receipt's signature once both are trimmed
\* and in lower case; ok is true exactly when the strategy is not "none", and
\* the strategy is "none" when none matches or the receipt has no signature.
C19_HmacStrategies ==
    (cpc = "in-authenticated" \/ (cpc = "in-exit" /\ Len(checks) = 1)) =>
        LET signature == readValetSignature(receiptJson)
            hashField == Member(receiptJson, <<"t", "r", "a", "n", "s", "c", "r", "i", "p", "t", "_", "h", "a", "s", "h">>)
            matches(payload) ==
                TrimmedLower(createHmacHex(env.hmacKey, payload)) = TrimmedLower(signature.v)
            first ==
                IF signature.t = "undefined" THEN <<"n", "o", "n", "e">>
                ELSE IF matches(canonicalJson(normalizeValetToTranscript(receiptJson)))
                THEN <<"c", "a", "n", "o", "n", "i", "c", "a", "l", "_", "t", "r", "a", "n", "s", "c", "r", "i", "p", "t">>
                ELSE IF matches(canonicalJson(stripSignatureFields(receiptJson)))
                THEN <<"c", "a", "n", "o", "n", "i", "c", "a", "l", "_", "r", "e", "c", "e", "i", "p", "t", "_", "w", "i", "t", "h", "o", "u", "t", "_", "s", "i", "g", "n", "a", "t", "u", "r", "e", "s">>
                ELSE IF hashField.t = "string" /\ matches(hashField.v)
                THEN <<"t", "r", "a", "n", "s", "c", "r", "i", "p", "t", "_", "h", "a", "s", "h", "_", "f", "i", "e", "l", "d">>
                ELSE <<"n", "o", "n", "e">>
        IN  /\ hmacResult.strategy = first
            /\ hmacResult.ok = (hmacResult.strategy # <<"n", "o", "n", "e">>)

\* A signature in upper case that is the HMAC of the canonical transcript and
\* of the transcript_hash field alike was reported as canonical_transcript.
C19_Witness ==
    /\ cpc = "in-authenticated"
    /\ Member(receiptJson, <<"t", "r", "a", "n", "s", "c", "r", "i", "p", "t", "_", "h", "a", "s", "h">>).v
           = canonicalJson(normalizeValetToTranscript(receiptJson))
    /\ Member(receiptJson, <<"h", "m", "a", "c">>).v
           = ToUpperHex(createHmacHex(env.hmacKey, Member(receiptJson, <<"t", "r", "a", "n", "s", "c", "r", "i", "p", "t", "_", "h", "a", "s", "h">>).v))
    /\ hmacResult = [ok |-> TRUE, strategy |-> <<"c", "a", "n", "o", "n", "i", "c", "a", "l", "_", "t", "r", "a", "n", "s", "c", "r", "i", "p", "t">>, reason |-> <<>>]

\* C20: a master receipt, an evidence pack, an output file or a check after the
\* first exist in a run only when verifyValetHmac has returned ok with a named
\* strategy; a run without HMAC key, or whose HMAC did not verify, ends with
\* exit code 1 and has made no master receipt, evidence pack or output.
C20_AuthenticatedFirst ==
    /\ (made # <<>> \/ files # {} \/ Len(checks) > 1) =>
           /\ hmacResult # <<>>
           /\ hmacResult.ok
           /\ hmacResult.strategy \in {<<"c", "a", "n", "o", "n", "i", "c", "a", "l", "_", "t", "r", "a", "n", "s", "c", "r", "i", "p", "t">>,
                                       <<"c", "a", "n", "o", "n", "i", "c", "a", "l", "_", "r", "e", "c", "e", "i", "p", "t", "_", "w", "i", "t", "h", "o", "u", "t", "_", "s", "i", "g", "n", "a", "t", "u", "r", "e", "s">>,
                                       <<"t", "r", "a", "n", "s", "c", "r", "i", "p", "t", "_", "h", "a", "s", "h", "_", "f", "i", "e", "l", "d">>}
    /\ (cpc = "in-exit" /\ receiptJson # <<>>
           /\ (env.hmacKey \in {Undefined, ""} \/ ~hmacResult.ok)) =>
               exitCode = 1 /\ made = <<>> /\ files = {}

\* A run with a key whose receipt carries a signature with one character
\* replaced ended with exit code 1 after the HMAC check alone.
C20_Witness ==
    /\ cpc = "in-exit"
    /\ env.hmacKey = "k1"
    /\ env.signingKey = PemKey("private", 1)
    /\ readValetSignature(receiptJson).t = "string"
    /\ hmacResult.ok = FALSE
    /\ checks = <<[name |-> "valet_hmac_verification", passed |-> FALSE]>>
    /\ exitCode = 1

\* C21: in a run that reaches the report, the status is PASS exactly when every
\* recorded check passed, the ledger submission check among them when a
\* submission was attempted, and runIngestValet returns true exactly when the
\* status is PASS.
C21_StatusIsAllChecks ==
    report # <<>> =>
        /\ (report.status = "PASS") = (\A i \in 1..Len(report.checks) : report.checks[i].passed)
        /\ report.checks = checks
        /\ report.submission # "skipped" =>
               \E i \in 1..Len(report.checks) :
                   report.checks[i] = [name |-> "ledger_submission",
                                       passed |-> report.submission = "ok"]
        /\ report.returned = (report.status = "PASS")
        /\ exitCode = IF report.status = "PASS" THEN 0 ELSE 1

\* A run whose only failed check is the ledger submission reported FAIL.
C21_Witness ==
    /\ report # <<>>
    /\ report.status = "FAIL"
    /\ report.returned = FALSE
    /\ report.checks[Len(report.checks)] = [name |-> "ledger_submission", passed |-> FALSE]
    /\ \A i \in 1..(Len(report.checks) - 1) : report.checks[i].passed

\* C25: a run in which createMasterReceipt returned a checkpoint has, when it
\* ends, recorded the offline verification and after it both acceptance
\* self-tests, each passed exactly when verifyCheckpointOffline rejected the
\* tampered input.
C25_SelfTestsAlways ==
    (cpc = "in-exit" /\ made # <<>>) =>
        \E i, j, k \in 1..Len(checks) :
            /\ i < j /\ j < k
            /\ checks[i].name = "offline_verify"
            /\ checks[j] = [name |-> "acceptance_tampered_evidence_fails",
                            passed |-> ~ckResult[2].ok]
            /\ checks[k] = [name |-> "acceptance_tampered_master_fails",
                            passed |-> ~ckResult[3].ok]

\* C26: a run that has ended has written a protocol report that lists the
\* checks performed in the run.
C26_ReportAlways ==
    cpc = "in-exit" =>
        /\ "protocol_report.json" \in files
        /\ report # <<>>
        /\ report.checks = checks

\* C27: master_receipt.json and evidence_pack.json are written, and submitted
\* to the ledger, only when the no-plaintext check, the master leak scan, the
\* offline verification and both acceptance self-tests have passed; a run
\* whose report says FAIL has emitted no master receipt that says PASS.
C27_WrittenOnlyIfPassed ==
    LET gate == {"master_receipt_plaintext_check", "master_receipt_leak_scan",
                 "offline_verify", "acceptance_tampered_evidence_fails",
                 "acceptance_tampered_master_fails"}
        gatePassed == \A n \in gate : \E i \in 1..Len(checks) :
                          checks[i].name = n /\ checks[i].passed
        emitted == {"master_receipt.json", "evidence_pack.json"} \cap files # {}
    IN  /\ emitted => gatePassed
        /\ (report # <<>> /\ report.submission # "skipped") => gatePassed
        /\ (emitted /\ report # <<>> /\ report.status = "FAIL") =>
               made.master_receipt.verification.derived_status # <<"P", "A", "S", "S">>

\* C22: normalizeValetToTranscript returns, for every JSON object, an object
\* with a messages array of role/content strings, a model string and a
\* created_at string; model and created_at are "unknown" when no supported
\* location holds one; messages are the direct messages when they hold a
\* message, else those of transcript.messages, else those of conversation,
\* else the user/assistant pair of the prompt and completion present, and
\* empty when there is none.
C22_NormalizeTolerant ==
    normalized # <<>> =>
        LET out == normalized[1]
            at(key) == Member(receiptJson, key)
            in(outer, key) == Member(Member(receiptJson, outer), key)
            text(v) == v.t = "string" /\ Len(v.v) > 0
            holdsMessage(v) ==
                /\ v.t = "array"
                /\ \E i \in 1..Len(v.v) :
                      /\ v.v[i].t = "object"
                      /\ \E key \in {<<"c", "o", "n", "t", "e", "n", "t">>, <<"t", "e", "x", "t">>, <<"m", "e", "s", "s", "a", "g", "e">>} : text(Member(v.v[i], key))
            hasPrompt == \/ text(at(<<"p", "r", "o", "m", "p", "t">>)) \/ text(at(<<"i", "n", "p", "u", "t">>))
                         \/ text(in(<<"r", "e", "q", "u", "e", "s", "t">>, <<"p", "r", "o", "m", "p", "t">>)) \/ text(in(<<"r", "e", "q", "u", "e", "s", "t">>, <<"i", "n", "p", "u", "t">>))
            hasCompletion == \/ text(at(<<"c", "o", "m", "p", "l", "e", "t", "i", "o", "n">>)) \/ text(at(<<"o", "u", "t", "p", "u", "t">>))
                             \/ text(in(<<"r", "e", "s", "p", "o", "n", "s", "e">>, <<"t", "e", "x", "t">>)) \/ text(in(<<"r", "e", "s", "p", "o", "n", "s", "e">>, <<"o", "u", "t", "p", "u", "t", "_", "t", "e", "x", "t">>))
                             \/ text(in(<<"r", "e", "s", "u", "l", "t">>, <<"t", "e", "x", "t">>))
            messages == Member(out, <<"m", "e", "s", "s", "a", "g", "e", "s">>)
            roles == [i \in 1..Len(messages.v) |-> Member(messages.v[i], <<"r", "o", "l", "e">>).v]
        IN  /\ out.t = "object"
            /\ messages.t = "array"
            /\ \A i \in 1..Len(messages.v) :
                  /\ messages.v[i].t = "object"
                  /\ text(Member(messages.v[i], <<"r", "o", "l", "e">>))
                  /\ text(Member(messages.v[i], <<"c", "o", "n", "t", "e", "n", "t">>))
            /\ text(Member(out, <<"m", "o", "d", "e", "l">>))
            /\ text(Member(out, <<"c", "r", "e", "a", "t", "e", "d", "_", "a", "t">>))
            /\ (~text(at(<<"m", "o", "d", "e", "l">>)) /\ ~text(in(<<"r", "e", "q", "u", "e", "s", "t">>, <<"m", "o", "d", "e", "l">>)) /\ ~text(in(<<"r", "e", "s", "p", "o", "n", "s", "e">>, <<"m", "o", "d", "e", "l">>)))
                  => Member(out, <<"m", "o", "d", "e", "l">>) = JStr(<<"u", "n", "k", "n", "o", "w", "n">>)
            /\ (~text(at(<<"c", "r", "e", "a", "t", "e", "d", "_", "a", "t">>)) /\ ~text(at(<<"t", "i", "m", "e", "s", "t", "a", "m", "p">>)) /\ ~text(in(<<"r", "e", "s", "p", "o", "n", "s", "e">>, <<"c", "r", "e", "a", "t", "e", "d", "_", "a", "t">>)))
                  => Member(out, <<"c", "r", "e", "a", "t", "e", "d", "_", "a", "t">>) = JStr(<<"u", "n", "k", "n", "o", "w", "n">>)
            /\ IF holdsMessage(at(<<"m", "e", "s", "s", "a", "g", "e", "s">>)) THEN messages = asMessageArray(at(<<"m", "e", "s", "s", "a", "g", "e", "s">>))
               ELSE IF holdsMessage(in(<<"t", "r", "a", "n", "s", "c", "r", "i", "p", "t">>, <<"m", "e", "s", "s", "a", "g", "e", "s">>))
               THEN messages = asMessageArray(in(<<"t", "r", "a", "n", "s", "c", "r", "i", "p", "t">>, <<"m", "e", "s", "s", "a", "g", "e", "s">>))
               ELSE IF holdsMessage(at(<<"c", "o", "n", "v", "e", "r", "s", "a", "t", "i", "o", "n">>)) THEN messages = asMessageArray(at(<<"c", "o", "n", "v", "e", "r", "s", "a", "t", "i", "o", "n">>))
               ELSE roles = (IF hasPrompt THEN <<<<"u", "s", "e", "r">>>> ELSE <<>>)
                            \o (IF hasCompletion THEN <<<<"a", "s", "s", "i", "s", "t", "a", "n", "t">>>> ELSE <<>>)

\* A receipt whose direct messages hold no message, whose transcript.messages
\* do, and that names no model anywhere has been normalized.
C22_Witness ==
    /\ normalized # <<>>
    /\ Member(receiptJson, <<"m", "e", "s", "s", "a", "g", "e", "s">>).t = "array"
    /\ asMessageArray(Member(receiptJson, <<"m", "e", "s", "s", "a", "g", "e", "s">>)) = JUndefined
    /\ Member(receiptJson, <<"c", "o", "n", "v", "e", "r", "s", "a", "t", "i", "o", "n">>).t = "array"
    /\ Member(normalized[1], <<"m", "e", "s", "s", "a", "g", "e", "s">>)
          = asMessageArray(Member(Member(receiptJson, <<"t", "r", "a", "n", "s", "c", "r", "i", "p", "t">>), <<"m", "e", "s", "s", "a", "g", "e", "s">>))
    /\ Member(normalized[1], <<"m", "o", "d", "e", "l">>) = JStr(<<"u", "n", "k", "n", "o", "w", "n">>)

\* C28: when verifyValetHmac accepts a receipt under a key, a receipt with the
\* same signature and a different normalized transcript is rejected under it.
C28_SignatureBindsTranscript ==
    (/\ cpc = "rc-verified"
     /\ hmacResult.ok
     /\ readValetSignature(rival) = readValetSignature(receiptJson)
     /\ normalized[1] # normalized[2])
        => ~rivalResult.ok

\* A reset ran after step a and before step b.
ResetBetween(a, b) == \E t \in resetTimes : a < t /\ t < b

\* C23: once a call of loadHaloReceiptsContract has returned a contract, every
\* call that begins later returns the same object without importing, as long
\* as no reset has run since; the first call that begins after a reset
\* imports again; and a package that fails validation leaves the cache null.
C23_CachedUntilReset ==
    /\ \A i, j \in 1..MaxCalls :
          (/\ calls[i].pc = "returned"
           /\ calls[j].pc \in {"returned", "threw"}
           /\ calls[i].ended < calls[j].began
           /\ ~ResetBetween(calls[i].ended, calls[j].ended))
              => /\ calls[j].result = calls[i].result
                 /\ ~calls[j].imported
    /\ \A t \in resetTimes, j \in 1..MaxCalls :
          (/\ calls[j].began > t
           /\ \A k \in 1..MaxCalls : ~(t < calls[k].began /\ calls[k].began < calls[j].began))
              => calls[j].imported
    /\ installed # "complete" => cached = 0

\* C29: calls of loadHaloReceiptsContract that overlap, with no reset while
\* they run, return the same contract object, and one of them alone imported
\* and validated the package.
C29_OverlappingCallsShare ==
    \A i, j \in 1..MaxCalls :
        (/\ i # j
         /\ calls[i].pc = "returned" /\ calls[j].pc = "returned"
         /\ calls[i].began < calls[j].began /\ calls[j].began < calls[i].ended
         /\ \A t \in resetTimes : t < calls[i].began \/ (t > calls[i].ended /\ t > calls[j].ended))
            => /\ calls[i].result = calls[j].result
               /\ ~calls[j].imported

\* C24: the ledger tagResponseToLedger returns for a text with at least one
\* sentence has a claim; every claim has a non-empty id, a type and a span;
\* and one claim at least is typed FACT or INFERENCE.
C24_LedgerGuarantees ==
    (epc \in {"tagged", "validated"} /\ sentence_count >= 1) =>
        /\ Len(claims) >= 1
        /\ \A i \in 1..Len(claims) :
              /\ claims[i].id.t = "string" /\ Len(claims[i].id.s) > 0
              /\ claims[i].type \in {"FACT", "INFERENCE", "ASSERTION", "OPINION"}
              /\ Len(claims[i].span_refs.v) >= 1
        /\ \E i \in 1..Len(claims) : claims[i].type \in {"FACT", "INFERENCE"}

\* C30: on a pair createMasterReceipt produced, altered or not, and with the
\* public key of the signing key, the inspector's recomputeVerification
\* reports isVerified exactly when verifyCheckpointOffline returns ok.
C30_InspectorAgrees ==
    (/\ cpc \in {"ck-inspected", "ck-reinspected"}
     /\ ckKeys.verifyKeyPem = PemKey("public", ckInput.signingKeyPem.id))
        => (localVerification.isVerified <=> ckResult[Len(ckResult)].ok)

====
